---- MODULE Spec2Model ----
(***************************************************************************)
(* Simply Nerdy transcript-to-article automation: the watcher, the per-file *)
(* pipeline (transcript-processor.js), the language-model response handling *)
(* (claude-api.js), the helpers of utils.js and the article store with its  *)
(* backups (articles-manager.js).                                           *)
(*                                                                          *)
(* Strings are sequences of one-character strings, so that length tests,    *)
(* regular-expression tests and string conversions are computed.            *)
(***************************************************************************)
EXTENDS Integers, Sequences, FiniteSets, TLC

(***************************************************************************)
(* Characters and strings                                                   *)
(***************************************************************************)
Lower == {"a","b","c","d","e","f","g","h","i","j","k","l","m",
          "n","o","p","q","r","s","t","u","v","w","x","y","z"}
Upper == {"A","B","C","D","E","F","G","H","I","J","K","L","M",
          "N","O","P","Q","R","S","T","U","V","W","X","Y","Z"}
Digit == {"0","1","2","3","4","5","6","7","8","9"}
Space == {" ", "\t", "\n"}
WordChar == Lower \cup Upper \cup Digit \cup {"_"}

\* String.prototype.toLowerCase, one character
ToLowerChar(c) ==
  CASE c = "A" -> "a" [] c = "B" -> "b" [] c = "C" -> "c" [] c = "D" -> "d"
    [] c = "E" -> "e" [] c = "F" -> "f" [] c = "G" -> "g" [] c = "H" -> "h"
    [] c = "I" -> "i" [] c = "J" -> "j" [] c = "K" -> "k" [] c = "L" -> "l"
    [] c = "M" -> "m" [] c = "N" -> "n" [] c = "O" -> "o" [] c = "P" -> "p"
    [] c = "Q" -> "q" [] c = "R" -> "r" [] c = "S" -> "s" [] c = "T" -> "t"
    [] c = "U" -> "u" [] c = "V" -> "v" [] c = "W" -> "w" [] c = "X" -> "x"
    [] c = "Y" -> "y" [] c = "Z" -> "z" [] OTHER -> c

ToLowerCase(s) == [i \in 1..Len(s) |-> ToLowerChar(s[i])]

\* the string of n copies of the character c
Repeat(c, n) == [i \in 1..n |-> c]

MinOf(S) == CHOOSE x \in S : \A y \in S : x <= y
MaxOf(S) == CHOOSE x \in S : \A y \in S : y <= x

\* the least position >= from of s that holds a character outside chars,
\* Len(s) + 1 when none
SkipChars(s, chars, from) ==
  LET others == {k \in from..Len(s) : s[k] \notin chars}
  IN IF others = {} THEN Len(s) + 1 ELSE MinOf(others)

\* the greatest position of s that holds a character outside chars, 0 when none
LastOutside(s, chars) ==
  LET others == {k \in 1..Len(s) : s[k] \notin chars}
  IN IF others = {} THEN 0 ELSE MaxOf(others)

\* s without its leading, and without its trailing, characters of chars
StripLeading(s, chars) == SubSeq(s, SkipChars(s, chars, 1), Len(s))
StripTrailing(s, chars) == SubSeq(s, 1, LastOutside(s, chars))

\* String.prototype.trim: leading and trailing white space removed
Trim(s) == StripTrailing(StripLeading(s, Space), Space)

\* s.startsWith(prefix)
StartsWith(s, prefix) ==
  Len(s) >= Len(prefix) /\ SubSeq(s, 1, Len(prefix)) = prefix

\* the value of a decimal digit
DigitValue(c) ==
  CASE c = "0" -> 0 [] c = "1" -> 1 [] c = "2" -> 2 [] c = "3" -> 3 [] c = "4" -> 4
    [] c = "5" -> 5 [] c = "6" -> 6 [] c = "7" -> 7 [] c = "8" -> 8 [] c = "9" -> 9

DigitChar(d) ==
  CASE d = 0 -> "0" [] d = 1 -> "1" [] d = 2 -> "2" [] d = 3 -> "3" [] d = 4 -> "4"
    [] d = 5 -> "5" [] d = 6 -> "6" [] d = 7 -> "7" [] d = 8 -> "8" [] d = 9 -> "9"

\* String(n) for a natural number n
RECURSIVE NatToString(_)
NatToString(n) ==
  IF n < 10 THEN <<DigitChar(n)>> ELSE Append(NatToString(n \div 10), DigitChar(n % 10))

\* String.prototype.padStart(width, c)
PadStart(s, width, c) ==
  IF Len(s) >= width THEN s ELSE Repeat(c, width - Len(s)) \o s

\* the value NaN of parseInt
NaN == -1

\* parseInt(s, 10) of a string without sign: the longest prefix of digits after
\* leading white space, NaN when that prefix is empty
RECURSIVE DigitPrefixValue(_, _)
DigitPrefixValue(s, acc) ==
  IF s # <<>> /\ Head(s) \in Digit
    THEN DigitPrefixValue(Tail(s), 10 * acc + DigitValue(Head(s)))
    ELSE acc

ParseInt(s) ==
  LET t == StripLeading(s, Space)
  IN IF t # <<>> /\ Head(t) \in Digit THEN DigitPrefixValue(t, 0) ELSE NaN

(***************************************************************************)
(* utils.js                                                                 *)
(***************************************************************************)
\* s with every character outside keep removed
KeepChars(s, keep) == SelectSeq(s, LAMBDA c : c \in keep)

\* a replace without the +: every separator becomes a hyphen
CollapseSeparators_Each(s) ==
  [i \in 1..Len(s) |-> IF s[i] \in Space \cup {"_", "-"} THEN "-" ELSE s[i]]

\* s.replace(/[\s_-]+/g, '-'): every maximal run of separators becomes one hyphen
CollapseSeparators(s) ==
  LET sep == Space \cup {"_", "-"}
      positions == [i \in 1..Len(s) |-> i]
      kept == SelectSeq(positions, LAMBDA i : s[i] \notin sep \/ i = 1 \/ s[i - 1] \notin sep)
  IN [j \in 1..Len(kept) |-> IF s[kept[j]] \in sep THEN "-" ELSE s[kept[j]]]

\* generateSlug(title)
generateSlug(title) ==
  LET lowered == Trim(ToLowerCase(title))
      cleaned == KeepChars(lowered, WordChar \cup Space \cup {"-"})
      hyphened == CollapseSeparators(cleaned)
  IN StripTrailing(StripLeading(hyphened, {"-"}), {"-"})

\* generateId(currentMaxId): parseInt(currentMaxId, 10) || 0, plus one, padded to 3
generateId(currentMaxId) ==
  LET parsed == ParseInt(currentMaxId)
      numericId == IF parsed = NaN THEN 0 ELSE parsed
  IN PadStart(NatToString(numericId + 1), 3, "0")

\* The wall clock is a number of seconds after local midnight of 1 January 2025.
ClockYear == <<"2","0","2","5">>
ClockMonth == <<"0","1">>
ClockDay == <<"0","1">>

Pad2(n) == PadStart(NatToString(n), 2, "0")

\* getCurrentDate(): YYYY-MM-DD
getCurrentDate(clock) == ClockYear \o <<"-">> \o ClockMonth \o <<"-">> \o ClockDay

\* getTimestamp(): YYYYMMDD-HHMMSS, one value per second
getTimestamp(clock) ==
  ClockYear \o ClockMonth \o ClockDay \o <<"-">>
    \o Pad2((clock \div 3600) % 24) \o Pad2((clock \div 60) % 60) \o Pad2(clock % 60)

\* A transcript text is a sequence of runs [c |-> character, n |-> how many of it];
\* NotAString stands for every value that is no string (it is no sequence of
\* characters: its one element is longer than a character).
NotAString == <<"NotAString">>

\* NotAText stands for every value handed to validateTranscript that is no string.
NotAText == <<[c |-> "NotAString", n |-> 0]>>

RECURSIVE TextLength(_)
TextLength(text) == IF text = <<>> THEN 0 ELSE Head(text).n + TextLength(Tail(text))

RECURSIVE TextTrimStart(_)
TextTrimStart(text) ==
  IF text # <<>> /\ (Head(text).c \in Space \/ Head(text).n = 0)
    THEN TextTrimStart(Tail(text)) ELSE text

RECURSIVE TextTrimEnd(_)
TextTrimEnd(text) ==
  IF text # <<>> /\ (text[Len(text)].c \in Space \/ text[Len(text)].n = 0)
    THEN TextTrimEnd(SubSeq(text, 1, Len(text) - 1)) ELSE text

TextTrim(text) == TextTrimEnd(TextTrimStart(text))

MinTranscriptLength == 100
MaxTranscriptLength == 100000

\* validateTranscript(text): [valid, error]
validateTranscript(text) ==
  IF text = NotAText \/ TextLength(text) = 0
    THEN [valid |-> FALSE, error |-> "Transcript is empty or not a string"]
  ELSE IF TextLength(TextTrim(text)) < MinTranscriptLength
    THEN [valid |-> FALSE, error |-> "Transcript too short (minimum 100 characters)"]
  ELSE IF TextLength(TextTrim(text)) > MaxTranscriptLength
    THEN [valid |-> FALSE, error |-> "Transcript too long (maximum 100,000 characters)"]
  ELSE [valid |-> TRUE, error |-> ""]

\* s from position i on starts with word, letter case ignored
MatchesAt(s, i, word) ==
  /\ i >= 1
  /\ i + Len(word) - 1 <= Len(s)
  /\ \A k \in 1..Len(word) : ToLowerChar(s[i + k - 1]) = word[k]

\* the least position >= from of s that holds a character of chars, 0 when none
IndexOfChar(s, chars, from) ==
  LET found == {k \in from..Len(s) : s[k] \in chars}
  IN IF found = {} THEN 0 ELSE MinOf(found)

\* the least position k >= from where word starts with only characters outside
\* stop in s[from..k-1]; 0 when there is none
IndexOfWordBefore(s, word, from, stop) ==
  LET found == {k \in from..Len(s) : MatchesAt(s, k, word)}
      k == IF found = {} THEN 0 ELSE MinOf(found)
  IN IF k # 0 /\ \A j \in from..(k - 1) : s[j] \notin stop THEN k ELSE 0

\* the characters the regular expression dot does not match
LineTerminator == {"\n", "\r"}

\* the last position of the match of /<tag[^>]*>.*?<\/tag>/i that starts at i,
\* 0 when none starts there
PairedMatchEnd(s, i, tag) ==
  IF ~MatchesAt(s, i, <<"<">> \o tag) THEN 0
  ELSE LET gt == IndexOfChar(s, {">"}, i + 1 + Len(tag))
           closing == <<"<", "/">> \o tag \o <<">">>
           k == IF gt = 0 THEN 0 ELSE IndexOfWordBefore(s, closing, gt + 1, LineTerminator)
       IN IF k = 0 THEN 0 ELSE k + Len(closing) - 1

\* the last position of the match of /<tag[^>]*\/>/i that starts at i, 0 when none
SelfClosingMatchEnd(s, i, tag) ==
  IF ~MatchesAt(s, i, <<"<">> \o tag) THEN 0
  ELSE LET gt == IndexOfChar(s, {">"}, i + 1 + Len(tag))
       IN IF gt # 0 /\ gt - 1 >= i + 1 + Len(tag) /\ s[gt - 1] = "/" THEN gt ELSE 0

\* the last position of the match of /on\w+\s*=\s*["'][^"']*["']/i that starts
\* at i, 0 when none starts there
HandlerMatchEnd(s, i) ==
  LET quote == {"\"", "'"}
      afterWord == SkipChars(s, WordChar, i + 2)
      eq == SkipChars(s, Space, afterWord)
      open == SkipChars(s, Space, eq + 1)
      close == IndexOfChar(s, quote, open + 1)
  IN IF /\ MatchesAt(s, i, <<"o", "n">>)
        /\ afterWord > i + 2
        /\ eq <= Len(s) /\ s[eq] = "="
        /\ open <= Len(s) /\ s[open] \in quote
       THEN close
       ELSE 0

\* The three regular expressions of sanitizeHtml: the end of the match of re that
\* starts at i, 0 when none starts there
MatchEnd(s, i, re) ==
  CASE re.kind = "paired" -> PairedMatchEnd(s, i, re.tag)
    [] re.kind = "selfClosing" -> SelfClosingMatchEnd(s, i, re.tag)
    [] re.kind = "handler" -> HandlerMatchEnd(s, i)

\* s.replace(re, '') for a global regex: matches are taken left to right, from
\* position i on
RECURSIVE RemoveMatches(_, _, _)
RemoveMatches(s, i, re) ==
  LET starts == {k \in i..Len(s) : MatchEnd(s, k, re) # 0}
  IN IF starts = {} THEN SubSeq(s, i, Len(s))
     ELSE SubSeq(s, i, MinOf(starts) - 1)
            \o RemoveMatches(s, MatchEnd(s, MinOf(starts), re) + 1, re)

DangerousTags ==
  << <<"s","c","r","i","p","t">>, <<"i","f","r","a","m","e">>,
     <<"o","b","j","e","c","t">>, <<"e","m","b","e","d">>, <<"f","o","r","m">> >>

RemoveTag(s, tag) ==
  LET paired == RemoveMatches(s, 1, [kind |-> "paired", tag |-> tag])
  IN RemoveMatches(paired, 1, [kind |-> "selfClosing", tag |-> tag])

RECURSIVE RemoveTags(_, _)
RemoveTags(s, tags) ==
  IF tags = <<>> THEN s ELSE RemoveTags(RemoveTag(s, Head(tags)), Tail(tags))

\* sanitizeHtml(html); a value that is no string, and the empty string, give ''
sanitizeHtml(html) ==
  IF html = NotAString \/ html = <<>> THEN <<>>
  ELSE RemoveMatches(RemoveTags(html, DangerousTags), 1, [kind |-> "handler"])

(***************************************************************************)
(* config/settings.json, as the code reads it                               *)
(***************************************************************************)
Games == <<"G","a","m","e","s">>
Movies == <<"M","o","v","i","e","s">>

\* config.categories
categories == {Games, Movies}

\* config.maxBackups
maxBackups == 10

\* config.retryAttempts
retryAttempts == 3

Http == <<"h","t","t","p">>

\* getCategoryDefaultImage(category): config.defaultImages[category], or the generic
\* fallback for a category without one
getCategoryDefaultImage(category) ==
  IF category = Games THEN Http \o <<"s",":","/","/","i","/","g">>
  ELSE IF category = Movies THEN Http \o <<"s",":","/","/","i","/","m">>
  ELSE Http \o <<"s",":","/","/","i","/","x">>

(***************************************************************************)
(* claude-api.js                                                            *)
(***************************************************************************)
\* A response text of the language model is described by what each of the three
\* extractions of parseApiResponse finds in it: whether its pattern matches
\* (the whole body always does) and whether JSON.parse accepts the matched text,
\* and then the parsed object.
NoObject == [none |-> TRUE]

Candidate(match, parses, obj) == [match |-> match, parses |-> parses, obj |-> obj]

NoCandidate == Candidate(FALSE, FALSE, NoObject)

\* parseApiResponse(responseText): [ok, obj, error]
parseApiResponse(responseText) ==
  IF responseText.whole.parses
    THEN [ok |-> TRUE, obj |-> responseText.whole.obj, error |-> ""]
  ELSE IF responseText.fence.match
    THEN IF responseText.fence.parses
           THEN [ok |-> TRUE, obj |-> responseText.fence.obj, error |-> ""]
           ELSE [ok |-> FALSE, obj |-> NoObject,
                 error |-> "Failed to parse JSON from markdown code block"]
  ELSE IF responseText.brace.match
    THEN IF responseText.brace.parses
           THEN [ok |-> TRUE, obj |-> responseText.brace.obj, error |-> ""]
           ELSE [ok |-> FALSE, obj |-> NoObject,
                 error |-> "Failed to parse extracted JSON object"]
  ELSE [ok |-> FALSE, obj |-> NoObject, error |-> "Could not find valid JSON in response"]

\* NotAnArray stands for every value that is no array.
NotAnArray == << <<"NotAnArray">> >>

RequiredResponseFields ==
  <<"title", "category", "excerpt", "content", "tags", "imageSearchTerms">>

\* a check that stops at the first field that is missing
MissingFields_First(obj, fields) ==
  LET missing == SelectSeq(fields, LAMBDA f : f \notin DOMAIN obj)
  IN IF missing = <<>> THEN <<>> ELSE <<missing[1]>>

\* the fields of fields that obj lacks, in the order of fields
MissingFields(obj, fields) == SelectSeq(fields, LAMBDA f : f \notin DOMAIN obj)

Podcast == <<"p","o","d","c","a","s","t">>
SimplyNerdyTag == <<"s","i","m","p","l","y","-","n","e","r","d","y">>

\* validateApiResponse(articleData): [ok, data, errors]; a title or an excerpt
\* that is no string has no trim method and the call raises a TypeError
validateApiResponse(articleData) ==
  LET missing == MissingFields(articleData, RequiredResponseFields)
      category == IF articleData.category \in categories
                    THEN articleData.category ELSE Games
      tags == IF articleData.tags = NotAnArray \/ Len(articleData.tags) < 3
                THEN <<Podcast, SimplyNerdyTag, ToLowerCase(category)>>
                ELSE articleData.tags
      terms == IF articleData.imageSearchTerms = NotAnArray
                    \/ Len(articleData.imageSearchTerms) = 0
                 THEN <<ToLowerCase(category)>>
                 ELSE articleData.imageSearchTerms
  IN IF missing # <<>>
       THEN [ok |-> FALSE, data |-> NoObject,
             errors |-> [i \in 1..Len(missing) |-> <<"Missing required field", missing[i]>>]]
     ELSE IF articleData.title = NotAString \/ articleData.excerpt = NotAString
       THEN [ok |-> FALSE, data |-> NoObject, errors |-> << <<"TypeError", "trim">> >>]
     ELSE [ok |-> TRUE,
           data |-> [title |-> Trim(articleData.title),
                     category |-> category,
                     excerpt |-> Trim(articleData.excerpt),
                     content |-> sanitizeHtml(articleData.content),
                     tags |-> tags,
                     imageSearchTerms |-> terms],
           errors |-> <<>>]

(***************************************************************************)
(* articles-manager.js: the parts without input or output                   *)
(***************************************************************************)
SimplyNerdy == <<"S","i","m","p","l","y"," ","N","e","r","d","y">>

RequiredArticleFields ==
  <<"id", "title", "slug", "date", "category", "excerpt", "content", "tags",
    "author", "image">>

\* article[f] is there and truthy: a missing field and the empty string are not
Truthy(article, f) == f \in DOMAIN article /\ article[f] # <<>>

AllIn(s, chars) == \A i \in 1..Len(s) : s[i] \in chars

\* /^\d{3}$/.test(s)
IsThreeDigits(s) == Len(s) = 3 /\ AllIn(s, Digit)

\* /^[a-z0-9-]+$/.test(s)
IsSlug(s) == Len(s) >= 1 /\ AllIn(s, Lower \cup Digit \cup {"-"})

\* /^\d{4}-\d{2}-\d{2}$/.test(s)
IsDate(s) ==
  /\ Len(s) = 10
  /\ \A i \in {1, 2, 3, 4, 6, 7, 9, 10} : s[i] \in Digit
  /\ s[5] = "-" /\ s[8] = "-"

MinTitleLength == 10
MaxTitleLength == 100
MinExcerptLength == 50
MinContentLength == 100
MinTags == 3

\* the messages of validateArticleStructure, one per rule, in the order of the code
FieldErrors(article) ==
  <<
    IF Truthy(article, "id") /\ ~IsThreeDigits(article.id)
      THEN <<"ID must be 3-digit zero-padded number">> ELSE <<>>,
    IF Truthy(article, "title")
         /\ (Len(article.title) < MinTitleLength \/ Len(article.title) > MaxTitleLength)
      THEN <<"Title must be between 10 and 100 characters">> ELSE <<>>,
    IF Truthy(article, "slug") /\ ~IsSlug(article.slug)
      THEN <<"Slug must contain only lowercase letters, numbers, and hyphens">> ELSE <<>>,
    IF Truthy(article, "date") /\ ~IsDate(article.date)
      THEN <<"Date must be in YYYY-MM-DD format">> ELSE <<>>,
    IF Truthy(article, "category") /\ article.category \notin categories
      THEN <<"Category must be one of the configured categories">> ELSE <<>>,
    IF Truthy(article, "excerpt") /\ Len(article.excerpt) < MinExcerptLength
      THEN <<"Excerpt must be at least 50 characters">> ELSE <<>>,
    IF Truthy(article, "content") /\ Len(article.content) < MinContentLength
      THEN <<"Content must be at least 100 characters">> ELSE <<>>,
    IF "tags" \in DOMAIN article
         /\ (article.tags = NotAnArray \/ Len(article.tags) < MinTags)
      THEN <<"Tags must be an array with at least 3 items">> ELSE <<>>,
    IF Truthy(article, "author") /\ article.author # SimplyNerdy
      THEN <<"Author must be Simply Nerdy">> ELSE <<>>,
    IF Truthy(article, "image") /\ ~StartsWith(article.image, Http)
      THEN <<"Image must be a valid URL starting with http">> ELSE <<>>
  >>

RECURSIVE Flatten(_)
Flatten(ss) == IF ss = <<>> THEN <<>> ELSE Head(ss) \o Flatten(Tail(ss))

\* validateArticleStructure(article): [valid, errors]
validateArticleStructure(article) ==
  LET missing == MissingFields(article, RequiredArticleFields)
      errors == [i \in 1..Len(missing) |-> "Missing required field"]
                  \o Flatten(FieldErrors(article))
  IN [valid |-> errors = <<>>, errors |-> errors]

\* the highest numeric id of posts, as the forEach of getNextArticleId finds it
RECURSIVE MaxNumericId(_, _)
MaxNumericId(posts, maxId) ==
  IF posts = <<>> THEN maxId
  ELSE LET numericId == IF "id" \in DOMAIN Head(posts) THEN ParseInt(Head(posts).id) ELSE NaN
       IN MaxNumericId(Tail(posts),
                       IF numericId # NaN /\ numericId > maxId THEN numericId ELSE maxId)

\* getNextArticleId() on the parsed store document data
NextArticleId(data) ==
  IF Len(data.posts) = 0 THEN <<"0","0","1">>
  ELSE generateId(NatToString(MaxNumericId(data.posts, 0)))

(***************************************************************************)
(* Files, file names and the store document                                 *)
(***************************************************************************)
EndsWith(s, suffix) ==
  Len(s) >= Len(suffix) /\ SubSeq(s, Len(s) - Len(suffix) + 1, Len(s)) = suffix

\* the greatest position of c in s, 0 when none
RECURSIVE LastIndexOf(_, _, _)
LastIndexOf(s, c, from) ==
  IF from < 1 THEN 0
  ELSE IF s[from] = c THEN from
  ELSE LastIndexOf(s, c, from - 1)

\* path.extname(filename)
extname(filename) ==
  LET dot == LastIndexOf(filename, ".", Len(filename))
  IN IF dot <= 1 THEN <<>> ELSE SubSeq(filename, dot, Len(filename))

\* path.basename(filename, path.extname(filename))
nameWithoutExt(filename) == SubSeq(filename, 1, Len(filename) - Len(extname(filename)))

\* s.replace(pattern, replacement) for a string pattern: its first occurrence
RECURSIVE ReplaceFirst(_, _, _)
ReplaceFirst(s, pattern, replacement) ==
  IF StartsWith(s, pattern)
    THEN replacement \o SubSeq(s, Len(pattern) + 1, Len(s))
  ELSE IF s = <<>> THEN <<>>
  ELSE <<Head(s)>> \o ReplaceFirst(Tail(s), pattern, replacement)

Txt == <<".","t","x","t">>
ErrorTxt == <<".","e","r","r","o","r">> \o Txt
FailedMark == <<"-","F","A","I","L","E","D">>

\* a cleanupOnSuccess that keeps the name
ProcessedName_NoTimestamp(filename, timestamp) == filename

\* newFilename of cleanupOnSuccess
ProcessedName(filename, timestamp) ==
  nameWithoutExt(filename) \o <<"-">> \o timestamp \o extname(filename)

\* newFilename of handleError
FailedName(filename, timestamp) ==
  nameWithoutExt(filename) \o <<"-">> \o timestamp \o FailedMark \o extname(filename)

\* errorLogPath of handleError
ErrorLogName(destination, filename) == ReplaceFirst(destination, extname(filename), ErrorTxt)

\* a map (file name -> content) with name set to content, and with name removed
Put(dir, name, content) ==
  [n \in DOMAIN dir \cup {name} |-> IF n = name THEN content ELSE dir[n]]

Remove(dir, name) == [n \in DOMAIN dir \ {name} |-> dir[n]]

EmptyDir == [n \in {} |-> <<>>]

\* The content of articles.json or of a backup is either text that JSON.parse
\* turns into a document [_instructions, posts], or text it rejects: what a reader
\* finds between the truncation of fs.writeFile and the end of its write.
Truncated == [truncated |-> TRUE]

Instructions == <<"h","o","w">>

Document(posts) == [_instructions |-> Instructions, posts |-> posts]

\* JSON.parse(content) succeeds and data.posts.length can be read (readArticles)
Readable(content) == "posts" \in DOMAIN content

\* the structure test of verifyIntegrity on the parsed data
IntegrityOk(data) ==
  /\ "_instructions" \in DOMAIN data /\ data._instructions # <<>>
  /\ "posts" \in DOMAIN data

\* a.localeCompare(b) <= 0 for backup timestamps: digits and hyphens, compared
\* character by character, a hyphen before every digit
CharOrder(c) == IF c \in Digit THEN DigitValue(c) + 1 ELSE 0

LocaleLeq(a, b) ==
  LET shorter == IF Len(a) <= Len(b) THEN Len(a) ELSE Len(b)
      differ == {k \in 1..shorter : a[k] # b[k]}
  IN IF differ = {} THEN Len(a) <= Len(b)
     ELSE CharOrder(a[MinOf(differ)]) < CharOrder(b[MinOf(differ)])

\* backupFiles[0] after the sort of restoreFromBackup
LatestBackup(dir) ==
  CHOOSE t \in DOMAIN dir : \A u \in DOMAIN dir : LocaleLeq(u, t)

\* a sort with the oldest first
OldBackups_Oldest(names, keep) ==
  {t \in names : Cardinality({u \in names : u # t /\ LocaleLeq(u, t)}) >= keep}

\* backupFiles.slice(maxBackups) after the sort of cleanOldBackups, newest
\* first: the names that keep or more other names come before
OldBackups(names, keep) ==
  {t \in names : Cardinality({u \in names : u # t /\ LocaleLeq(t, u)}) >= keep}

(***************************************************************************)
(* The inputs of the model                                                  *)
(***************************************************************************)
FileA == <<"a">> \o Txt
\* a name with the extension inside it
FileB == <<"b">> \o Txt \o Txt
NotesMd == <<"n",".","m","d">>

\* the paths the watcher reports
Paths == {FileA, FileB, NotesMd}

\* transcripts dropped into the watch folder
GoodTranscript == <<[c |-> "w", n |-> 2000]>>
ShortTranscript == <<[c |-> " ", n |-> 60], [c |-> "w", n |-> 40]>>
Transcripts == {GoodTranscript, ShortTranscript}

TopicTitle == <<"N","e","r","d","y"," ","T","o","p","i","c">>
ShortTitle == <<"S","h","o","r","t">>
BlankTitle == <<" "," "," ">>
Books == <<"B","o","o","k","s">>
ScriptOnly ==
  <<"<","s","c","r","i","p","t",">","x","<","/","s","c","r","i","p","t",">">>
ThreeTags == << <<"t","v">>, <<"f","u","n">>, <<"g","e","e","k">> >>

ResponseObject(title, category, excerpt, content, tags, terms) ==
  [title |-> title, category |-> category, excerpt |-> excerpt, content |-> content,
   tags |-> tags, imageSearchTerms |-> terms]

GoodObject ==
  ResponseObject(TopicTitle, Games, Repeat("e", MinExcerptLength),
                 Repeat("c", MinContentLength), ThreeTags, << <<"t","v">> >>)

\* a title too short for the store
ShortObject == [GoodObject EXCEPT !.title = ShortTitle]

\* title and excerpt of white space only, content of one script element, and a
\* category, tags and search terms that validateApiResponse replaces
BlankObject ==
  ResponseObject(BlankTitle, Books, <<" ">>, ScriptOnly, NotAnArray, NotAnArray)

\* the response lacks the excerpt
MissingObject == [f \in {"title", "category", "content", "tags", "imageSearchTerms"}
                    |-> GoodObject[f]]

WholeBody(obj) ==
  [whole |-> Candidate(TRUE, TRUE, obj), fence |-> NoCandidate, brace |-> NoCandidate]

Fenced(obj) ==
  [whole |-> Candidate(TRUE, FALSE, NoObject), fence |-> Candidate(TRUE, TRUE, obj),
   brace |-> Candidate(TRUE, FALSE, NoObject)]

Prose ==
  [whole |-> Candidate(TRUE, FALSE, NoObject), fence |-> NoCandidate, brace |-> NoCandidate]

\* the response texts the language model returns
Responses ==
  {WholeBody(GoodObject), Fenced(ShortObject), WholeBody(BlankObject), Prose}

\* an article already in the store when the watcher starts
OldArticle ==
  [id |-> <<"0","0","1">>, title |-> TopicTitle, slug |-> generateSlug(TopicTitle),
   date |-> <<"2","0","2","4","-","1","2","-","3","1">>, category |-> Games,
   excerpt |-> Repeat("e", MinExcerptLength), content |-> Repeat("c", MinContentLength),
   tags |-> ThreeTags, author |-> SimplyNerdy, image |-> getCategoryDefaultImage(Games)]

\* the bounds of the model
NumRuns == 2
MaxEvents == 2
MaxClock == 1
MaxFaults == 1

Runs == 1..NumRuns

(***************************************************************************)
(* The state                                                                *)
(***************************************************************************)
VARIABLES
  clock,            \* the wall clock, in seconds
  inputDir,         \* the watch folder: file name -> transcript text
  processedDir,     \* the file names of the processed folder
  failedDir,        \* the file names of the failed folder
  errorLogs,        \* the .error.txt files of the failed folder
  store,            \* the content of articles.json
  backups,          \* the backup folder: timestamp of the file name -> content
  processingFiles,  \* the set processingFiles of transcript-processor.js
  timers,           \* per path, the handleFileAdded calls waiting in their timer
  run,              \* the processTranscript calls in progress, one per slot
  outcome,          \* per path, how its last finished run ended (history)
  events,           \* the number of add events so far
  faults,           \* the number of input/output failures so far
  proc,             \* the node process: where main() is, the credential, the exit code
  call,             \* a call of one of the functions without input or output
  dropped           \* the number of files dropped into the watch folder so far

vars ==
  <<clock, inputDir, processedDir, failedDir, errorLogs, store, backups,
    processingFiles, timers, run, outcome, events, faults, proc, call, dropped>>

\* the local variables of one processTranscript call and of the appendArticle
\* call it makes; storeAtCall, backupName and readPosts are history
IdleRun ==
  [pc |-> "idle", file |-> <<>>, attempt |-> 0, articleData |-> NoObject,
   article |-> NoObject, data |-> NoObject, error |-> "", storeAtCall |-> NoObject, backupName |-> <<>>,
   readPosts |-> <<>>, waited |-> <<>>]

\* process.env.ANTHROPIC_API_KEY when it is set, and when it is not
ApiKey == <<"k","e","y">>
NoApiKey == <<>>

\* the process with main() at its start, inside startWatcher with the watcher
\* set up, and after process.exit(code)
Starting(apiKey) == [state |-> "starting", apiKey |-> apiKey, exitCode |-> 0]
Watching(apiKey) == [state |-> "watching", apiKey |-> apiKey, exitCode |-> 0]
Exited(apiKey, code) == [state |-> "exited", apiKey |-> apiKey, exitCode |-> code]

\* no function call is looked at
NoCall == [fn |-> "none", input |-> <<>>, output |-> <<>>, returned |-> FALSE]

\* The folders, the store and the pipelines when the process starts, with the
\* backup folder holding dir
FilesAtStart(dir) ==
  /\ clock = 0
  /\ inputDir = EmptyDir
  /\ processedDir = {}
  /\ failedDir = {}
  /\ errorLogs = {}
  /\ store \in {Document(<<>>), Document(<<OldArticle>>)}
  /\ backups = dir
  /\ processingFiles = {}
  /\ timers = [p \in Paths |-> 0]
  /\ run = [r \in Runs |-> IdleRun]
  /\ outcome = [p \in Paths |-> "none"]
  /\ events = 0
  /\ faults = 0
  /\ dropped = 0

\* The state when the watcher starts, with the backup folder holding dir
InitWith(dir) ==
  /\ FilesAtStart(dir)
  /\ proc = Watching(ApiKey)
  /\ call = NoCall

\* a first start: no backup yet
Init == InitWith(EmptyDir)

\* the name of a backup made in the last seconds of 31 December 2024
OldTimestamp(k) ==
  <<"2","0","2","4","1","2","3","1","-","2","3","5","9","5">> \o <<DigitChar(k)>>

\* a backup folder that holds maxBackups backups, as after maxBackups appends
FullBackups ==
  [t \in {OldTimestamp(k) : k \in 0..(maxBackups - 1)} |-> Document(<<>>)]

\* a start with a full backup folder
InitFull == InitWith(FullBackups)

Fault == faults < MaxFaults /\ faults' = faults + 1
NoFault == UNCHANGED faults

\* the fields of run r set as in changes, a record
Set(r, changes) ==
  run' = [run EXCEPT ![r] =
            [f \in DOMAIN IdleRun |-> IF f \in DOMAIN changes THEN changes[f] ELSE run[r][f]]]

\* a step of processTranscript throws: on to its catch block
Throw(r, message) == Set(r, [pc |-> "error_archive", error |-> message])

\* a step of appendArticle throws: on to its catch block
ThrowInAppend(r, message) == Set(r, [pc |-> "restore", error |-> message])

(***************************************************************************)
(* transcript-processor.js                                                  *)
(***************************************************************************)
\* a handleFileAdded that takes every file
IsTranscriptPath_Any(filePath) == TRUE

\* filePath.endsWith('.txt')
IsTranscriptPath(filePath) == EndsWith(filePath, Txt)

\* The watcher reports a file added at filePath (a new file, or one deleted and
\* created again) and handleFileAdded starts its timer, for a .txt path only
handleFileAdded(filePath, text) ==
  /\ proc.state = "watching"
  /\ events < MaxEvents
  /\ events' = events + 1
  /\ dropped' = dropped + 1
  /\ inputDir' = Put(inputDir, filePath, text)
  /\ timers' = IF IsTranscriptPath(filePath)
                 THEN [timers EXCEPT ![filePath] = @ + 1]
                 ELSE timers
  /\ UNCHANGED <<proc, call, clock, processedDir, failedDir, errorLogs, store, backups,
                 processingFiles, run, outcome, faults>>

\* a has() that never finds the path
AlreadyProcessing_Never(files, filePath) == FALSE

\* processingFiles.has(filePath)
AlreadyProcessing(files, filePath) == filePath \in files

\* a finally block that leaves the set as it is
AfterFinally_Keep(files, filePath) == files

\* processingFiles.delete(filePath) of the finally block
AfterFinally(files, filePath) == files \ {filePath}

\* a step 1 that goes on whatever the file holds
ReadTranscript_NoValidation(dir, filePath) == [pc |-> "transforming", error |-> ""]

\* Step 1: what fs.readFile and validateTranscript make of the watch folder: the
\* next step of the run and, on failure, the error
ReadTranscript(dir, filePath) ==
  IF filePath \notin DOMAIN dir
    THEN [pc |-> "error_archive", error |-> "ENOENT"]
  ELSE IF validateTranscript(dir[filePath]).valid
    THEN [pc |-> "transforming", error |-> ""]
  ELSE [pc |-> "error_archive",
        error |-> "Invalid transcript: " \o validateTranscript(dir[filePath]).error]

\* the lowest free slot
FreeSlot == CHOOSE q \in Runs : run[q].pc = "idle" /\ \A o \in 1..(q - 1) : run[o].pc # "idle"

\* The timer of handleFileAdded ends and processTranscript(filePath) begins: it
\* returns at once for a path in processingFiles; otherwise it adds the path and
\* reads and validates the file (step 1)
processTranscript(filePath) ==
  /\ timers[filePath] > 0
  /\ timers' = [timers EXCEPT ![filePath] = @ - 1]
  /\ IF AlreadyProcessing(processingFiles, filePath)
       THEN UNCHANGED <<processingFiles, run>>
       ELSE /\ \E r \in Runs : run[r].pc = "idle"
            /\ run' = [run EXCEPT ![FreeSlot] =
                         [IdleRun EXCEPT !.file = filePath,
                                         !.pc = ReadTranscript(inputDir, filePath).pc,
                                         !.error = ReadTranscript(inputDir, filePath).error,
                                         !.attempt = 1]]
            /\ processingFiles' = processingFiles \cup {filePath}
  /\ UNCHANGED <<dropped, proc, call, clock, inputDir, processedDir, failedDir, errorLogs, store, backups,
                 outcome, events, faults>>

\* the end of a processTranscript call: its finally block
Finally(r, result) ==
  /\ processingFiles' = AfterFinally(processingFiles, run[r].file)
  /\ run' = [run EXCEPT ![r] = IdleRun]
  /\ outcome' = [outcome EXCEPT ![run[r].file] = result]

\* options.delayMs and options.multiplier of retryWithBackoff, at their defaults
retryDelayMs == 2000
multiplier == 2

\* a loop that tries once more than maxAttempts
RetryAgain_OneMore(attempt, maxAttempts) == attempt <= maxAttempts

\* retryWithBackoff: after a failed attempt, whether another one follows
RetryAgain(attempt, maxAttempts) == attempt < maxAttempts

\* a loop whose counter starts again
NextAttempt_Restart(attempt) == 1

\* retryWithBackoff: attempt++
NextAttempt(attempt) == attempt + 1

\* retryWithBackoff: the delay after the failed attempt
BackoffDelay(delayMs, factor, attempt) == delayMs * factor ^ (attempt - 1)

\* the error of the invocation number attempt of the model call; the errors of
\* different invocations differ, so that the one that is raised can be told
CallError(attempt) == "the call failed (invocation " \o ToString(attempt) \o ")"

\* the catch block of transformTranscript
TransformError(message) == "Failed to transform transcript: " \o message

\* transformTranscript after the call has returned responseText: parseApiResponse,
\* then validateApiResponse; [ok, data, error]
TransformResponse(responseText) ==
  LET parsed == parseApiResponse(responseText)
      validated == validateApiResponse(parsed.obj)
  IN IF ~parsed.ok THEN [ok |-> FALSE, data |-> NoObject, error |-> parsed.error]
     ELSE IF ~validated.ok
       THEN [ok |-> FALSE, data |-> NoObject, error |-> "API response validation failed"]
     ELSE [ok |-> TRUE, data |-> validated.data, error |-> ""]

\* TransformResponse, as a table over the responses of the model
Transformed == [responseText \in Responses |-> TransformResponse(responseText)]

\* a transformTranscript that calls the model again when the response is rejected
ResponseRejected_Retried(attempt, message) ==
  IF attempt < retryAttempts
    THEN [attempt |-> attempt + 1, error |-> message]
    ELSE [pc |-> "error_archive", attempt |-> 0, waited |-> <<>>,
          error |-> TransformError(message)]

\* a transformTranscript that puts the newest backup back when the response is
\* rejected
ResponseRejected_Restores(attempt, message) ==
  [pc |-> "restore", attempt |-> 0, waited |-> <<>>, error |-> TransformError(message)]

\* parseApiResponse or validateApiResponse throws: they are called after
\* retryWithBackoff has returned, so the catch block of transformTranscript is next
ResponseRejected(attempt, message) ==
  [pc |-> "error_archive", attempt |-> 0, waited |-> <<>>,
   error |-> TransformError(message)]

\* Step 2: one invocation of the language-model call inside retryWithBackoff. It
\* fails, and the loop sleeps and goes on or gives up with the last error; or it
\* returns a response, which is parsed and validated. The attempt counter and the
\* delays are local to retryWithBackoff and are gone when it returns or throws
CallModel(r) ==
  /\ run[r].pc = "transforming"
  /\ \/ IF RetryAgain(run[r].attempt, retryAttempts)
          THEN Set(r, [attempt |-> NextAttempt(run[r].attempt),
                       error |-> CallError(run[r].attempt),
                       waited |-> Append(run[r].waited,
                                    BackoffDelay(retryDelayMs, multiplier, run[r].attempt))])
          ELSE Set(r, [pc |-> "error_archive", attempt |-> 0, waited |-> <<>>,
                       error |-> TransformError(CallError(run[r].attempt))])
     \/ \E responseText \in Responses :
          IF Transformed[responseText].ok
            THEN Set(r, [pc |-> "metadata", attempt |-> 0, waited |-> <<>>, error |-> "",
                         articleData |-> Transformed[responseText].data])
            ELSE Set(r, ResponseRejected(run[r].attempt, Transformed[responseText].error))
  /\ UNCHANGED <<dropped, proc, call, clock, inputDir, processedDir, failedDir, errorLogs, store, backups,
                 processingFiles, timers, outcome, events, faults>>

\* Step 5: the article object
BuildArticle(articleData, nextId, slug, date, imageUrl) ==
  [id |-> nextId, title |-> articleData.title, slug |-> slug,
   date |-> date, category |-> articleData.category,
   excerpt |-> articleData.excerpt, content |-> articleData.content,
   tags |-> articleData.tags, author |-> SimplyNerdy, image |-> imageUrl]

(***************************************************************************)
(* image-handler.js                                                         *)
(***************************************************************************)
\* config.unsplashEnabled
unsplashEnabled == FALSE

\* `${undefined}`
Undefined == <<"u","n","d","e","f","i","n","e","d">>

\* the size parameters buildUnsplashUrl appends
Crop == <<"&","w","=","8","0","0","&","h","=","4","0","0","&","f","i","t","=","c","r","o","p">>

\* a function returns value, or throws
Returned(value) == [threw |-> FALSE, value |-> value]
Thrown == [threw |-> TRUE, value |-> <<>>]

\* buildUnsplashUrl(photo): photo.urls.raw || photo.urls.regular, with the size
\* parameters appended; reading raw of a photo without urls throws a TypeError
buildUnsplashUrl(photo) ==
  IF "urls" \notin DOMAIN photo THEN Thrown
  ELSE LET baseUrl == IF Truthy(photo.urls, "raw") THEN photo.urls.raw
                      ELSE IF "regular" \in DOMAIN photo.urls THEN photo.urls.regular
                      ELSE Undefined
       IN Returned(baseUrl \o Crop)

\* What the image service answers to the search request: the request fails
\* (fetch rejects), the status is no success, the body is no JSON, or the body
\* is parsed into data, with or without results
NetworkError == [kind |-> "networkError"]
BadStatus == [kind |-> "status"]
BadBody == [kind |-> "body"]
SearchData(data) == [kind |-> "data", data |-> data]

\* the try block of searchUnsplash after the request was answered: the url it
\* returns, or a throw into its catch block
SearchResult(answer, category) ==
  IF answer.kind # "data" THEN Thrown
  ELSE IF "results" \notin DOMAIN answer.data \/ Len(answer.data.results) = 0
    THEN Returned(getCategoryDefaultImage(category))
  ELSE LET photo == answer.data.results[1]
           imageUrl == buildUnsplashUrl(photo)
       IN IF imageUrl.threw \/ "user" \notin DOMAIN photo THEN Thrown ELSE imageUrl

\* searchUnsplash(searchTerms, category) in the environment env (the setting
\* unsplashEnabled, process.env.UNSPLASH_ACCESS_KEY and the answer of the
\* service): [url, requests], requests counting the calls of fetch.
\* searchTerms.join of a value that is no array throws inside the try block
searchUnsplash(searchTerms, category, env) ==
  IF ~env.unsplashEnabled \/ env.accessKey = <<>>
    THEN [url |-> getCategoryDefaultImage(category), requests |-> 0]
  ELSE IF searchTerms = NotAnArray
    THEN [url |-> getCategoryDefaultImage(category), requests |-> 0]
  ELSE [url |-> IF SearchResult(env.answer, category).threw
                  THEN getCategoryDefaultImage(category)
                  ELSE SearchResult(env.answer, category).value,
        requests |-> 1]

\* getImageForArticle(searchTerms, category) in the environment env
getImageForArticle(searchTerms, category, env) ==
  IF searchTerms = <<>>
    THEN [url |-> getCategoryDefaultImage(category), requests |-> 0]
    ELSE searchUnsplash(searchTerms, category, env)

\* the environment of the pipeline: the image search is switched off
SettingsEnv ==
  [unsplashEnabled |-> unsplashEnabled, accessKey |-> <<>>, answer |-> NetworkError]

\* Steps 3 to 6 as the changes to the local variables of the run:
\* getNextArticleId reads the store; slug, date, image and the article object
\* follow without input or output; appendArticle is called and
\* validateArticleStructure decides between createBackup and the catch block
MetadataChanges(articleData, content, now) ==
  IF ~Readable(content)
    THEN [pc |-> "error_archive", error |-> "Failed to read articles.json"]
    ELSE LET article == BuildArticle(articleData, NextArticleId(content),
                          generateSlug(articleData.title), getCurrentDate(now),
                          getImageForArticle(articleData.imageSearchTerms,
                                             articleData.category, SettingsEnv).url)
         IN IF validateArticleStructure(article).valid
              THEN [pc |-> "backup", article |-> article, storeAtCall |-> content]
              ELSE [pc |-> "restore", article |-> article, storeAtCall |-> content,
                    error |-> "Article validation failed"]

\* Steps 3 to 6 of processTranscript and the validation of appendArticle
GenerateMetadata(r) ==
  /\ run[r].pc = "metadata"
  /\ Set(r, MetadataChanges(run[r].articleData, store, clock))
  /\ UNCHANGED <<dropped, proc, call, clock, inputDir, processedDir, failedDir, errorLogs, store, backups,
                 processingFiles, timers, outcome, events, faults>>

(***************************************************************************)
(* articles-manager.js: appendArticle, step by step                         *)
(***************************************************************************)
\* copyFile(articlesPath, backupPath) of createBackup
BackupCopy(dir, timestamp, content) == Put(dir, timestamp, content)

\* createBackup()
CreateBackup(r) ==
  /\ run[r].pc = "backup"
  /\ \/ /\ NoFault
        /\ backups' = BackupCopy(backups, getTimestamp(clock), store)
        /\ Set(r, [pc |-> "read", backupName |-> getTimestamp(clock)])
     \/ /\ Fault
        /\ ThrowInAppend(r, "Failed to create backup")
        /\ UNCHANGED backups
  /\ UNCHANGED <<dropped, proc, call, clock, inputDir, processedDir, failedDir, errorLogs, store,
                 processingFiles, timers, outcome, events>>

\* the slug under which the article is stored: with the timestamp appended when
\* a post of the store has the same slug
StoredSlug(posts, slug, timestamp) ==
  IF \E i \in 1..Len(posts) : "slug" \in DOMAIN posts[i] /\ posts[i].slug = slug
    THEN slug \o <<"-">> \o timestamp
    ELSE slug

\* the posts without the push
AppendedPosts_NoPush(posts, article) == posts

\* an unshift in place of the push
AppendedPosts_Unshift(posts, article) == <<article>> \o posts

\* data.posts.push(article)
AppendedPosts(posts, article) == Append(posts, article)

\* readArticles(), the duplicate-slug check and the push
ReadStore(r) ==
  /\ run[r].pc = "read"
  /\ IF ~Readable(store)
       THEN ThrowInAppend(r, "Failed to read articles.json")
       ELSE LET article == [run[r].article EXCEPT
                              !.slug = StoredSlug(store.posts, @, getTimestamp(clock))]
            IN Set(r, [pc |-> "write", article |-> article, readPosts |-> store.posts,
                       data |-> [store EXCEPT !.posts = AppendedPosts(@, article)]])
  /\ UNCHANGED <<dropped, proc, call, clock, inputDir, processedDir, failedDir, errorLogs, store, backups,
                 processingFiles, timers, outcome, events, faults>>

\* fs.writeFile opens articles.json for writing, which empties it
WriteBegin(r) ==
  /\ run[r].pc = "write"
  /\ store' = Truncated
  /\ Set(r, [pc |-> "writing"])
  /\ UNCHANGED <<dropped, proc, call, clock, inputDir, processedDir, failedDir, errorLogs, backups,
                 processingFiles, timers, outcome, events, faults>>

\* fs.writeFile writes JSON.stringify(data) and ends, or fails part way
WriteEnd(r) ==
  /\ run[r].pc = "writing"
  /\ \/ /\ NoFault
        /\ store' = run[r].data
        /\ Set(r, [pc |-> "verify"])
     \/ /\ Fault
        /\ ThrowInAppend(r, "Failed to write articles.json")
        /\ UNCHANGED store
  /\ UNCHANGED <<dropped, proc, call, clock, inputDir, processedDir, failedDir, errorLogs, backups,
                 processingFiles, timers, outcome, events>>

\* verifyIntegrity() at the end of writeArticles
VerifyIntegrity(r) ==
  /\ run[r].pc = "verify"
  /\ IF ~Readable(store)
       THEN ThrowInAppend(r, "Failed to read articles.json")
     ELSE IF ~IntegrityOk(store)
       THEN ThrowInAppend(r, "Invalid articles.json structure")
     ELSE Set(r, [pc |-> "clean"])
  /\ UNCHANGED <<dropped, proc, call, clock, inputDir, processedDir, failedDir, errorLogs, store, backups,
                 processingFiles, timers, outcome, events, faults>>

\* the backup folder after cleanOldBackups
Pruned(dir) ==
  LET toDelete == OldBackups(DOMAIN dir, maxBackups)
  IN [t \in DOMAIN dir \ toDelete |-> dir[t]]

\* a cleanOldBackups that throws what it caught
AfterCleanOldBackups_Throws(failed) == IF failed THEN "restore" ELSE "archive"

\* where appendArticle goes on after cleanOldBackups, whose catch block logs a
\* warning and does not throw: appendArticle returns
AfterCleanOldBackups(failed) == "archive"

\* cleanOldBackups(), whose failure is logged only; appendArticle returns
CleanOldBackups(r) ==
  /\ run[r].pc = "clean"
  /\ \/ /\ NoFault
        /\ backups' = Pruned(backups)
        /\ Set(r, [pc |-> AfterCleanOldBackups(FALSE), data |-> NoObject])
     \/ /\ Fault
        /\ UNCHANGED backups
        /\ Set(r, [pc |-> AfterCleanOldBackups(TRUE), data |-> NoObject])
  /\ UNCHANGED <<dropped, proc, call, clock, inputDir, processedDir, failedDir, errorLogs, store,
                 processingFiles, timers, outcome, events>>

\* a catch block that throws the error of the restore when there is one
Rethrown_RestoreError(error, restoreError) == IF restoreError # "" THEN restoreError ELSE error

\* the error appendArticle throws at the end of its catch block
Rethrown(error, restoreError) == error

\* the content restoreFromBackup copies over articles.json
RestoredContent(dir) == dir[LatestBackup(dir)]

\* the catch block of appendArticle: restoreFromBackup(), then throw error
RestoreFromBackup(r) ==
  /\ run[r].pc = "restore"
  /\ \/ /\ DOMAIN backups = {}
        /\ NoFault
        /\ UNCHANGED store
        /\ Set(r, [pc |-> "error_archive", data |-> NoObject,
                   error |-> Rethrown(run[r].error, "No backups found")])
     \/ /\ DOMAIN backups # {}
        /\ NoFault
        /\ store' = RestoredContent(backups)
        /\ Set(r, [pc |-> "error_archive", data |-> NoObject,
                   error |-> Rethrown(run[r].error, "")])
     \/ /\ DOMAIN backups # {}
        /\ Fault
        /\ UNCHANGED store
        /\ Set(r, [pc |-> "error_archive", data |-> NoObject,
                   error |-> Rethrown(run[r].error, "Failed to restore from backup")])
  /\ UNCHANGED <<dropped, proc, call, clock, inputDir, processedDir, failedDir, errorLogs, backups,
                 processingFiles, timers, outcome, events>>

(***************************************************************************)
(* transcript-processor.js: the archives                                    *)
(***************************************************************************)
\* Step 7: cleanupOnSuccess moves the file to the processed folder; then finally
CleanupOnSuccess(r) ==
  /\ run[r].pc = "archive"
  /\ \/ /\ run[r].file \in DOMAIN inputDir
        /\ NoFault
        /\ inputDir' = Remove(inputDir, run[r].file)
        /\ processedDir' = processedDir \cup {ProcessedName(run[r].file, getTimestamp(clock))}
        /\ Finally(r, "processed")
     \/ /\ run[r].file \notin DOMAIN inputDir
        /\ NoFault
        /\ Throw(r, "ENOENT")
        /\ UNCHANGED <<inputDir, processedDir, processingFiles, outcome>>
     \/ /\ run[r].file \in DOMAIN inputDir
        /\ Fault
        /\ Throw(r, "Failed to move file")
        /\ UNCHANGED <<inputDir, processedDir, processingFiles, outcome>>
  /\ UNCHANGED <<dropped, proc, call, clock, failedDir, errorLogs, store, backups, timers, events>>

\* an error thrown as far as processTranscript's caller
CaughtInHandleError_Raised(result) == "raised"

\* handleError's catch (moveError): the failure is logged and handleError returns
CaughtInHandleError(result) == result

\* handleError: the file is moved to the failed folder and the error file is
\* written next to it; a failure of either is logged only. Then the finally block
HandleError(r) ==
  /\ run[r].pc = "error_archive"
  /\ LET destination == FailedName(run[r].file, getTimestamp(clock))
         errorLog == [name |-> ErrorLogName(destination, run[r].file),
                      file |-> run[r].file, error |-> run[r].error]
     IN \/ /\ run[r].file \in DOMAIN inputDir
           /\ NoFault
           /\ inputDir' = Remove(inputDir, run[r].file)
           /\ failedDir' = failedDir \cup {destination}
           /\ errorLogs' = errorLogs \cup {errorLog}
           /\ Finally(r, "failed")
        \/ /\ run[r].file \in DOMAIN inputDir
           /\ Fault
           /\ inputDir' = Remove(inputDir, run[r].file)
           /\ failedDir' = failedDir \cup {destination}
           /\ UNCHANGED errorLogs
           /\ Finally(r, CaughtInHandleError("failed"))
        \/ /\ run[r].file \notin DOMAIN inputDir
           /\ NoFault
           /\ Finally(r, CaughtInHandleError("unarchived"))
           /\ UNCHANGED <<inputDir, failedDir, errorLogs>>
        \/ /\ run[r].file \in DOMAIN inputDir
           /\ Fault
           /\ Finally(r, CaughtInHandleError("unarchived"))
           /\ UNCHANGED <<inputDir, failedDir, errorLogs>>
  /\ UNCHANGED <<dropped, proc, call, clock, processedDir, store, backups, timers, events>>

\* a second passes
Tick ==
  /\ clock < MaxClock
  /\ clock' = clock + 1
  /\ UNCHANGED <<dropped, proc, call, inputDir, processedDir, failedDir, errorLogs, store, backups,
                 processingFiles, timers, run, outcome, events, faults>>

Next ==
  \/ \E filePath \in Paths, text \in Transcripts : handleFileAdded(filePath, text)
  \/ \E filePath \in Paths : processTranscript(filePath)
  \/ \E r \in Runs : CallModel(r)
  \/ \E r \in Runs : GenerateMetadata(r)
  \/ \E r \in Runs : CreateBackup(r)
  \/ \E r \in Runs : ReadStore(r)
  \/ \E r \in Runs : WriteBegin(r)
  \/ \E r \in Runs : WriteEnd(r)
  \/ \E r \in Runs : VerifyIntegrity(r)
  \/ \E r \in Runs : CleanOldBackups(r)
  \/ \E r \in Runs : RestoreFromBackup(r)
  \/ \E r \in Runs : CleanupOnSuccess(r)
  \/ \E r \in Runs : HandleError(r)
  \/ Tick

Spec == Init /\ [][Next]_vars

\* the program started with a full backup folder
SpecFull == InitFull /\ [][Next]_vars

\* a main() that starts the watcher whatever the environment holds
AfterKeyCheck_Anyway(apiKey) == Watching(apiKey)

\* main(): the test of process.env.ANTHROPIC_API_KEY, which an unset and an
\* empty variable fail, with process.exit(1) or the call of startWatcher
AfterKeyCheck(apiKey) ==
  IF apiKey = NoApiKey THEN Exited(apiKey, 1) ELSE Watching(apiKey)

\* chokidar.watch with ignoreInitial false: the watcher reports every file the
\* watch folder holds when it starts, and handleFileAdded starts a timer for
\* each .txt path
InitialAdds(dir) ==
  [p \in Paths |-> IF p \in DOMAIN dir /\ IsTranscriptPath(p) THEN 1 ELSE 0]

\* main(): the credential is tested; then startWatcher() reads the settings,
\* makes the watch folder and sets the watcher up, which reports the files the
\* folder holds; a failure of startWatcher is caught and ends the process with
\* process.exit(1)
main ==
  /\ proc.state = "starting"
  /\ events + Cardinality(DOMAIN inputDir) <= MaxEvents
  /\ \/ /\ NoFault
        /\ proc' = AfterKeyCheck(proc.apiKey)
        /\ timers' = IF proc'.state = "watching" THEN InitialAdds(inputDir) ELSE timers
        /\ events' = IF proc'.state = "watching"
                       THEN events + Cardinality(DOMAIN inputDir) ELSE events
     \/ /\ proc.apiKey # NoApiKey
        /\ Fault
        /\ proc' = Exited(proc.apiKey, 1)
        /\ UNCHANGED <<timers, events>>
  /\ UNCHANGED <<dropped, call, clock, inputDir, processedDir, failedDir, errorLogs, store, backups,
                 processingFiles, run, outcome>>

\* The state when node starts the program, with or without the credential
InitStart ==
  /\ FilesAtStart(EmptyDir)
  /\ \E apiKey \in {ApiKey, NoApiKey} : proc = Starting(apiKey)
  /\ call = NoCall

\* the program from the start of the process
StartSpec == InitStart /\ [][main \/ Next]_vars

\* The handlers of SIGINT and SIGTERM: the watcher is closed and process.exit(0)
\* ends the process, with it every processTranscript call in progress, every
\* pending timer and the set processingFiles; the files stay as they are
shutdown ==
  /\ proc.state = "watching"
  /\ proc' = Exited(proc.apiKey, 0)
  /\ run' = [r \in Runs |-> IdleRun]
  /\ processingFiles' = {}
  /\ timers' = [p \in Paths |-> 0]
  /\ UNCHANGED <<dropped, call, clock, inputDir, processedDir, failedDir, errorLogs, store, backups,
                 outcome, events, faults>>

\* node runs the program again after it has exited
restart ==
  /\ proc.state = "exited"
  /\ proc' = Starting(proc.apiKey)
  /\ UNCHANGED <<dropped, call, clock, inputDir, processedDir, failedDir, errorLogs, store, backups,
                 processingFiles, timers, run, outcome, events, faults>>

\* the program stopped by a signal and started again
RestartSpec == Init /\ [][Next \/ shutdown \/ restart \/ main]_vars

\* the steps of run r
RunStep(r) ==
  \/ CallModel(r) \/ GenerateMetadata(r) \/ CreateBackup(r) \/ ReadStore(r)
  \/ WriteBegin(r) \/ WriteEnd(r) \/ VerifyIntegrity(r) \/ CleanOldBackups(r)
  \/ RestoreFromBackup(r) \/ CleanupOnSuccess(r) \/ HandleError(r)

\* Every call to the model and every file operation returns or fails in the end:
\* a run in progress takes its next step. This is WF_vars(RunStep(r)) written
\* out, with Active(r) for ENABLED <<RunStep(r)>>_vars: a run in progress can
\* always take a step, and every step of a run changes its local variables
FairSpec ==
  Spec /\ \A r \in Runs : ([]<>(run[r].pc = "idle") \/ []<><<RunStep(r)>>_vars)

(***************************************************************************)
(* The functions without input or output, called one at a time on the       *)
(* arguments below                                                          *)
(***************************************************************************)
\* the bounds of the arguments
MaxTitleChars == 4
MaxPad == 2
MaxPosts == 2
MaxChangedFields == 2
MaxPieces == 4

\* fn is called with input
Pending(fn, input) == [fn |-> fn, input |-> input, output |-> <<>>, returned |-> FALSE]

\* the call of fn returns output
Return(fn, output) ==
  /\ call.fn = fn
  /\ ~call.returned
  /\ call' = [call EXCEPT !.output = output, !.returned = TRUE]
  /\ UNCHANGED <<dropped, proc, clock, inputDir, processedDir, failedDir, errorLogs, store, backups,
                 processingFiles, timers, run, outcome, events, faults>>

\* titles: letters of both cases, a digit, white space, the separators and a
\* character generateSlug removes
TitleChars == {"a", "Z", "7", " ", "_", "-", "!"}
Titles == UNION {[1..n -> TitleChars] : n \in 0..MaxTitleChars}

\* transcript texts: a body of a length at the limits of validateTranscript,
\* between leading spaces and trailing line ends; and a value that is no string
BodyLengths ==
  {0, 1} \cup ((MinTranscriptLength - MaxPad - 1)..(MinTranscriptLength + 1))
         \cup ((MaxTranscriptLength - MaxPad - 1)..(MaxTranscriptLength + 1))

PaddedText(leading, body, trailing) ==
  <<[c |-> " ", n |-> leading], [c |-> "w", n |-> body], [c |-> "\n", n |-> trailing]>>

\* stores: up to MaxPosts posts, each without id or with an id that is a number
\* of three digits, a number followed by letters, or no number
PostIds ==
  {<<"0","0","1">>, <<"0","0","6">>, <<"9","9","9">>, <<"1","2","x">>, <<"a","b","c">>}
PostsOfStore == {[title |-> TopicTitle]} \cup {[id |-> id] : id \in PostIds}
PostLists == UNION {[1..n -> PostsOfStore] : n \in 0..MaxPosts}

\* articles: OldArticle with up to MaxChangedFields of its fields absent, empty
\* or holding a value that breaks the rule of the field
BadValue ==
  [id |-> <<"1","2">>, title |-> ShortTitle, slug |-> <<"A","b">>,
   date |-> <<"2","0","2","5">>, category |-> Books, excerpt |-> <<"e">>,
   content |-> <<"c">>, tags |-> << <<"t","v">>, <<"f","u","n">> >>,
   author |-> <<"B","o","b">>, image |-> <<"f","t","p">>]

ArticleFields == {RequiredArticleFields[i] : i \in 1..Len(RequiredArticleFields)}

Changes ==
  UNION {[fields -> {"bad", "empty", "absent"}] :
           fields \in {F \in SUBSET ArticleFields : Cardinality(F) <= MaxChangedFields}}

Changed(article, change) ==
  [f \in DOMAIN article \ {g \in DOMAIN change : change[g] = "absent"} |->
     IF f \notin DOMAIN change THEN article[f]
     ELSE IF change[f] = "empty" THEN <<>>
     ELSE BadValue[f]]

\* response texts by what the three extractions of parseApiResponse find. A
\* body that parses is an object, and is what the braces enclose; a fenced
\* block lies between the first and the last brace, or inside a string of the
\* object the braces enclose: ... {"content": "```{x}```", "title": "t"}
Candidates == {NoCandidate, Candidate(TRUE, FALSE, NoObject), Candidate(TRUE, TRUE, GoodObject),
               Candidate(TRUE, TRUE, ShortObject)}

ResponseTexts ==
  {[whole |-> w, fence |-> f, brace |-> b] :
     w \in {c \in Candidates : c.match}, f \in Candidates, b \in Candidates}

Consistent(responseText) ==
  /\ responseText.whole.parses => responseText.brace = responseText.whole
  /\ responseText.fence.match => responseText.brace.match

\* parsed responses: any of the six fields absent, and values that
\* validateApiResponse replaces
ResponseValues ==
  {ResponseObject(title, category, GoodObject.excerpt, ScriptOnly, tags, terms) :
     title \in {TopicTitle, BlankTitle, NotAString},
     category \in {Games, Movies, Books, <<>>},
     tags \in {ThreeTags, SubSeq(ThreeTags, 1, 2), NotAnArray},
     terms \in {SubSeq(ThreeTags, 1, 1), <<>>, NotAnArray}}

Without(obj, fields) == [f \in DOMAIN obj \ fields |-> obj[f]]

\* photos of a search result: complete, without user, without urls, with urls
\* that hold a regular address only, and with urls that hold no address
PhotoUrl == Http \o <<"s",":","/","/","u","/","p","?","x">>
Photos ==
  {[id |-> <<"p">>, urls |-> [raw |-> PhotoUrl, regular |-> PhotoUrl], user |-> [name |-> <<"n">>]],
   [id |-> <<"p">>, urls |-> [raw |-> PhotoUrl, regular |-> PhotoUrl]],
   [id |-> <<"p">>, user |-> [name |-> <<"n">>]],
   [id |-> <<"p">>, urls |-> [regular |-> PhotoUrl], user |-> [name |-> <<"n">>]],
   [id |-> <<"p">>, urls |-> [small |-> PhotoUrl], user |-> [name |-> <<"n">>]]}

Answers ==
  {NetworkError, BadStatus, BadBody, SearchData([total |-> 0]),
   SearchData([total |-> 0, results |-> <<>>])}
    \cup {SearchData([total |-> 1, results |-> <<photo>>]) : photo \in Photos}

ImageEnvs ==
  {[unsplashEnabled |-> enabled, accessKey |-> key, answer |-> answer] :
     enabled \in BOOLEAN, key \in {<<>>, ApiKey}, answer \in Answers}

ImageRequests ==
  {[searchTerms |-> terms, category |-> category, env |-> env] :
     terms \in {<<>>, SubSeq(ThreeTags, 1, 2), NotAnArray},
     category \in {Games, Movies, Books},
     env \in ImageEnvs}

\* html texts: up to MaxPieces pieces in a row. The pieces are an opening script
\* tag cut in two, a whole one, a closing one, an empty script element, a letter,
\* a line end, a paragraph tag, a self-closing embed, a quoted handler
\* attribute, a tag with an unquoted one, and a tag with the attribute content
HtmlPieces ==
  {<<"<","s","c","r">>,
   <<"i","p","t",">">>,
   <<"<","s","c","r","i","p","t",">">>,
   <<"<","/","s","c","r","i","p","t",">">>,
   <<"<","s","c","r","i","p","t",">","<","/","s","c","r","i","p","t",">">>,
   <<"a">>,
   <<"\n">>,
   <<"<","p",">">>,
   <<"<","e","m","b","e","d","/",">">>,
   <<" ","o","n","c","l","i","c","k","=","\"","x","\"">>,
   <<"<","p"," ","o","n","l","o","a","d","=","a",">">>,
   <<"<","a"," ","c","o","n","t","e","n","t","=","\"","x","\"",">">>}

HtmlTexts ==
  {Flatten(pieces) : pieces \in UNION {[1..n -> HtmlPieces] : n \in 0..MaxPieces}}

\* one function is called on one of the arguments
InitCalls ==
  /\ FilesAtStart(EmptyDir)
  /\ proc = Watching(ApiKey)
  /\ \/ \E title \in Titles : call = Pending("generateSlug", title)
     \/ \E leading, trailing \in 0..MaxPad, body \in BodyLengths :
          call = Pending("validateTranscript", PaddedText(leading, body, trailing))
     \/ call = Pending("validateTranscript", NotAText)
     \/ \E posts \in PostLists : call = Pending("getNextArticleId", Document(posts))
     \/ \E change \in Changes :
          call = Pending("validateArticleStructure", Changed(OldArticle, change))
     \/ \E responseText \in ResponseTexts :
          Consistent(responseText) /\ call = Pending("parseApiResponse", responseText)
     \/ \E obj \in ResponseValues, fields \in SUBSET DOMAIN GoodObject :
          call = Pending("validateApiResponse", Without(obj, fields))
     \/ \E request \in ImageRequests : call = Pending("getImageForArticle", request)
     \/ \E html \in HtmlTexts \cup {NotAString} : call = Pending("sanitizeHtml", html)

GenerateSlugReturns == Return("generateSlug", generateSlug(call.input))

ValidateTranscriptReturns == Return("validateTranscript", validateTranscript(call.input))

GetNextArticleIdReturns == Return("getNextArticleId", NextArticleId(call.input))

ValidateArticleStructureReturns ==
  Return("validateArticleStructure", validateArticleStructure(call.input))

ParseApiResponseReturns == Return("parseApiResponse", parseApiResponse(call.input))

ValidateApiResponseReturns == Return("validateApiResponse", validateApiResponse(call.input))

GetImageForArticleReturns ==
  Return("getImageForArticle",
         getImageForArticle(call.input.searchTerms, call.input.category, call.input.env))

SanitizeHtmlReturns == Return("sanitizeHtml", sanitizeHtml(call.input))

NextCalls ==
  \/ GenerateSlugReturns
  \/ ValidateTranscriptReturns
  \/ GetNextArticleIdReturns
  \/ ValidateArticleStructureReturns
  \/ ParseApiResponseReturns
  \/ ValidateApiResponseReturns
  \/ GetImageForArticleReturns
  \/ SanitizeHtmlReturns

CallSpec == InitCalls /\ [][NextCalls]_vars

(***************************************************************************)
(* Properties                                                               *)
(***************************************************************************)
Active(r) == run[r].pc # "idle"

Posts == IF Readable(store) THEN store.posts ELSE <<>>

\* C1: appendArticle called with an article that validateArticleStructure
\* rejects leaves articles.json as it was: the step that ends such a call (the
\* catch block, with the validation error) does not change the store.
C1_InvalidArticleLeavesStore ==
  [][\A r \in Runs :
       (run[r].pc = "restore" /\ run[r].error = "Article validation failed"
          /\ run'[r].pc # "restore")
       => store' = store]_vars

\* C2: when appendArticle fails after its backup was created, then at its return
\* the store holds what it held when appendArticle was called, and the error
\* thrown is the original one.
C2_FailureAfterBackupRestoresStore ==
  [][\A r \in Runs :
       (run[r].pc = "restore" /\ run[r].backupName # <<>> /\ run'[r].pc # "restore")
       => (store' = run[r].storeAtCall /\ run'[r].error = run[r].error)]_vars

\* C3: whenever appendArticle is about to write the store, the same call has
\* created a backup and that backup holds exactly the content the write replaces.
C3_BackupHoldsReplacedContent ==
  \A r \in Runs :
    run[r].pc = "write"
    => /\ run[r].backupName \in DOMAIN backups
       /\ backups[run[r].backupName] = store

\* C4: the slugs of the stored articles are pairwise distinct.
C4_SlugsDistinct ==
  \A i, j \in 1..Len(Posts) : i # j => Posts[i].slug # Posts[j].slug

\* C5: the ids of the stored articles are pairwise different.
C5_IdsDistinct ==
  \A i, j \in 1..Len(Posts) : i # j => Posts[i].id # Posts[j].id

\* C6: appendArticle is not mutually exclusive across pipelines. Whenever the
\* appendArticle calls of two pipelines have both returned successfully after
\* both read the same posts from the store, the store holds those posts and the
\* article of exactly one of the two: the other article is lost.
C6_OverlappingAppendsLoseOne ==
  \A r1, r2 \in Runs :
    (r1 # r2 /\ run[r1].pc = "archive" /\ run[r2].pc = "archive"
       /\ run[r1].readPosts = run[r2].readPosts)
    => /\ Readable(store)
       /\ store.posts \in {Append(run[r1].readPosts, run[r1].article),
                           Append(run[r2].readPosts, run[r2].article)}

\* C6 witness: two pipelines in flight whose appendArticle calls both read the
\* same posts and both returned successfully, and the store has one article more
\* than they read, not two.
C6_Witness ==
  \E r1, r2 \in Runs :
    /\ r1 # r2 /\ run[r1].pc = "archive" /\ run[r2].pc = "archive"
    /\ {run[r1].file, run[r2].file} \subseteq processingFiles
    /\ run[r1].file # run[r2].file
    /\ run[r1].readPosts = run[r2].readPosts
    /\ Readable(store)
    /\ Len(store.posts) = Len(run[r1].readPosts) + 1

\* the field-validation contract of an article
ContractOk(article) ==
  /\ \A i \in 1..Len(RequiredArticleFields) : RequiredArticleFields[i] \in DOMAIN article
  /\ IsThreeDigits(article.id)
  /\ Len(article.title) >= MinTitleLength /\ Len(article.title) <= MaxTitleLength
  /\ IsSlug(article.slug)
  /\ IsDate(article.date)
  /\ article.category \in categories
  /\ Len(article.excerpt) >= MinExcerptLength
  /\ Len(article.content) >= MinContentLength
  /\ article.tags # NotAnArray /\ Len(article.tags) >= MinTags
  /\ article.author = SimplyNerdy
  /\ StartsWith(article.image, Http)

\* C7: every article in the store satisfies every rule of the field-validation
\* contract.
C7_StoredArticlesValid == \A i \in 1..Len(Posts) : ContractOk(Posts[i])

\* C8: whenever a pipeline is about to read the store (getNextArticleId, the
\* read of appendArticle, the integrity check after the write), articles.json is
\* a JSON document of shape {_instructions, posts}.
C8_StoreValidWhenRead ==
  \A r \in Runs :
    run[r].pc \in {"metadata", "read", "verify"} => Readable(store) /\ IntegrityOk(store)

\* at most one processTranscript call is in progress per path
AtMostOneRunPerPath ==
  \A r1, r2 \in Runs : (r1 # r2 /\ Active(r1) /\ Active(r2)) => run[r1].file # run[r2].file

\* C9: a processTranscript call for a path that is in processingFiles does
\* nothing (no run starts, no file moves, the path stays in the set), and at most
\* one run per path is in progress at any time.
C9_DuplicateAddIsNoOp ==
  [][/\ \A p \in Paths :
          (timers'[p] < timers[p] /\ p \in processingFiles)
          => UNCHANGED <<run, processingFiles, inputDir, processedDir, failedDir,
                         errorLogs, store, backups, outcome>>
     /\ AtMostOneRunPerPath']_vars

\* C9 witness: both add events were for a.txt; the first started a run that is
\* still in progress and the second one's processTranscript call has returned.
C9_Witness ==
  /\ events = 2
  /\ \A p \in Paths : timers[p] = 0 /\ outcome[p] = "none"
  /\ DOMAIN inputDir = {FileA}
  /\ processingFiles = {FileA}
  /\ Cardinality({r \in Runs : Active(r)}) = 1

\* C10: the paths in processingFiles are exactly the paths of the runs in
\* progress: a run that has ended, with success or with any failure, has left
\* the set, and with no run in progress the set is empty.
C10_InFlightIsRunning == processingFiles = {run[r].file : r \in {q \in Runs : Active(q)}}

\* C10 witness: the last run for a.txt ended with a failed move to the failed
\* folder, the set is empty again and a new add event for a.txt is being handled.
C10_Witness ==
  /\ outcome[FileA] = "unarchived"
  /\ \E r \in Runs : Active(r) /\ run[r].file = FileA
  /\ processingFiles = {FileA}

\* C11: processTranscript never raises to its caller. The step that ends a
\* failed run (handleError, whether or not its move and its error file succeed,
\* then the finally block) leaves the run ended with the outcome failed or
\* unarchived, never raised, takes the path out of processingFiles and changes
\* neither another run, a pending timer, the store nor the backups.
C11_FailureIsContained ==
  [][\A r \in Runs :
       (run[r].pc = "error_archive" /\ run'[r].pc # "error_archive")
       => /\ run'[r] = IdleRun
          /\ outcome'[run[r].file] \in {"failed", "unarchived"}
          /\ run[r].file \notin processingFiles'
          /\ \A q \in Runs \ {r} : run'[q] = run[q]
          /\ UNCHANGED <<timers, store, backups, processedDir>>]_vars

\* C11 witness: the run for a.txt failed and so did the move to the failed
\* folder (the file is still in the watch folder), and b.txt was processed.
C11_Witness ==
  /\ outcome[FileA] = "unarchived"
  /\ FileA \in DOMAIN inputDir
  /\ faults = 1
  /\ outcome[FileB] = "processed"

\* C12: whenever a failed run ends (here: one whose file is in the watch folder
\* and whose handleError meets no input/output failure), the file is no longer
\* in the watch folder, is in the failed folder under <name>-<timestamp>-FAILED<ext>
\* and an error file whose name ends in .error.txt holds the error message.
C12_FailedFileArchived ==
  [][\A r \in Runs :
       (run[r].pc = "error_archive" /\ run'[r].pc # "error_archive"
          /\ run[r].file \in DOMAIN inputDir /\ faults' = faults)
       => /\ run[r].file \notin DOMAIN inputDir'
          /\ (nameWithoutExt(run[r].file) \o <<"-">> \o getTimestamp(clock)
                \o <<"-","F","A","I","L","E","D">> \o extname(run[r].file)) \in failedDir'
          /\ \E log \in errorLogs' :
               /\ log.file = run[r].file
               /\ log.error = run[r].error
               /\ EndsWith(log.name, <<".","e","r","r","o","r",".","t","x","t">>)]_vars

\* the order of the steps of one run: the step after each step
StepOrder ==
  {<<"idle", "transforming">>, <<"idle", "error_archive">>,
   <<"transforming", "metadata">>, <<"transforming", "error_archive">>,
   <<"metadata", "backup">>, <<"metadata", "restore">>, <<"metadata", "error_archive">>,
   <<"backup", "read">>, <<"backup", "restore">>,
   <<"read", "write">>, <<"read", "restore">>,
   <<"write", "writing">>,
   <<"writing", "verify">>, <<"writing", "restore">>,
   <<"verify", "clean">>, <<"verify", "restore">>,
   <<"clean", "archive">>,
   <<"restore", "error_archive">>,
   <<"archive", "idle">>, <<"archive", "error_archive">>,
   <<"error_archive", "idle">>}

\* C13: the steps of one run happen in the order validate, transform, metadata
\* and image, append (backup, read, write, verify, prune), archive, and a step
\* begins only when the one before it has succeeded: the model is called only
\* for a file that is there and valid, metadata is generated only from a
\* response that was accepted, the backup is made only of a valid article with
\* its image, the integrity check follows a completed write of the article, and
\* a file goes to the processed folder only in the archive step of its run.
C13_StepsInOrder ==
  [][/\ \A r \in Runs :
          run'[r].pc # run[r].pc
          => /\ <<run[r].pc, run'[r].pc>> \in StepOrder
             /\ run'[r].pc = "transforming"
                  => /\ run'[r].file \in DOMAIN inputDir
                     /\ validateTranscript(inputDir[run'[r].file]).valid
             /\ run'[r].pc = "metadata" => run'[r].articleData # NoObject
             /\ run'[r].pc = "backup"
                  => /\ validateArticleStructure(run'[r].article).valid
                     /\ run'[r].article.image
                          = getImageForArticle(run[r].articleData.imageSearchTerms,
                                               run[r].articleData.category,
                                               SettingsEnv).url
             /\ run'[r].pc = "read" => run'[r].backupName \in DOMAIN backups'
             /\ run'[r].pc = "verify"
                  => /\ store' = run[r].data
                     /\ \E i \in 1..Len(store'.posts) : store'.posts[i] = run[r].article
     /\ processedDir' # processedDir
          => \E r \in Runs : /\ run[r].pc = "archive" /\ run'[r].pc = "idle"
                             /\ processedDir' = processedDir \cup
                                  {ProcessedName(run[r].file, getTimestamp(clock))}]_vars

\* C13 witness: a.txt, the only file dropped, is in the processed folder and
\* its article is in the store.
C13_Witness ==
  /\ events = 1
  /\ outcome[FileA] = "processed"
  /\ \E c \in 0..MaxClock : ProcessedName(FileA, getTimestamp(c)) \in processedDir
  /\ \E i \in 1..Len(Posts) : Posts[i] # OldArticle /\ Posts[i].title = TopicTitle

\* the number of steps a run can still take
Rank(local) ==
  CASE local.pc = "idle" -> 0
    [] local.pc = "error_archive" -> 1
    [] local.pc = "archive" -> 2
    [] local.pc = "restore" -> 2
    [] local.pc = "clean" -> 3
    [] local.pc = "verify" -> 4
    [] local.pc = "writing" -> 5
    [] local.pc = "write" -> 6
    [] local.pc = "read" -> 7
    [] local.pc = "backup" -> 8
    [] local.pc = "metadata" -> 9
    [] local.pc = "transforming" -> 10 + retryAttempts - local.attempt

\* C14: every run that was started ends, given that every call and file
\* operation returns or fails: with finitely many add events, again and again
\* no run is in progress, and a run ends with one of the outcomes processed,
\* failed or unarchived; and no step is repeated without bound: every step of a
\* run lowers the number of steps it can still take.
C14_EveryRunEnds ==
  /\ [][\A r \in Runs :
          (Active(r) /\ run'[r] # run[r])
          => /\ Rank(run'[r]) < Rank(run[r])
             /\ run'[r].pc = "idle" => outcome'[run[r].file] \in {"processed", "failed", "unarchived"}]_vars
  /\ []<>(\A r \in Runs : ~Active(r))

\* C14 witness: the run for a.txt has ended after the last attempt of the call
\* failed, and the error file says so.
C14_Witness ==
  /\ outcome[FileA] = "failed"
  /\ FileA \notin processingFiles
  /\ \E log \in errorLogs : /\ log.file = FileA
                            /\ log.error = TransformError(CallError(retryAttempts))

\* the error messages of failed invocations
CallErrors == {CallError(k) : k \in 1..retryAttempts}

\* C15: retryWithBackoff invokes the call at most maxAttempts times; a failed
\* invocation k < maxAttempts is followed by a wait of delayMs * multiplier^(k-1)
\* and invocation k + 1; the first invocation that succeeds ends the loop; the
\* failed invocation maxAttempts ends it with the error of that invocation, and
\* without a wait.
C15_RetryWithBackoff ==
  [][\A r \in Runs :
       run[r].pc = "transforming"
       => /\ run[r].attempt \in 1..retryAttempts
          /\ Len(run[r].waited) = run[r].attempt - 1
          /\ \A k \in 1..Len(run[r].waited) :
               run[r].waited[k] = retryDelayMs * multiplier ^ (k - 1)
          /\ (run'[r].pc = "transforming" /\ run'[r] # run[r])
               => /\ run[r].attempt < retryAttempts
                  /\ run'[r].attempt = run[r].attempt + 1
                  /\ run'[r].error = CallError(run[r].attempt)
                  /\ run'[r].waited = Append(run[r].waited,
                                        retryDelayMs * multiplier ^ (run[r].attempt - 1))
          /\ (run'[r].pc = "error_archive"
                /\ run'[r].error \in {TransformError(e) : e \in CallErrors})
               => /\ run[r].attempt = retryAttempts
                  /\ run'[r].error = TransformError(CallError(retryAttempts))
                  /\ run'[r].waited = <<>>
          /\ run'[r].pc = "metadata" => run'[r].articleData # NoObject]_vars

\* C15 witness: every attempt has failed and transformTranscript has thrown the
\* error of the last one.
C15_Witness ==
  \E r \in Runs : /\ run[r].pc = "error_archive"
                  /\ run[r].error = TransformError(CallError(retryAttempts))

\* C16: a run that is calling the model has not received a response yet: its
\* last error, if any, is the error of a failed call. A response that is
\* rejected by parseApiResponse or validateApiResponse ends the calls: the next
\* step is the archive of the failed file, and a run that has left the call
\* never calls again.
C16_NoCallAfterResponse ==
  [][\A r \in Runs :
       /\ run'[r].pc = "transforming" => run'[r].error \in CallErrors \cup {""}
       /\ (Active(r) /\ run[r].pc # "transforming") => run'[r].pc # "transforming"
       /\ (run[r].pc = "transforming" /\ run'[r].pc # "transforming"
             /\ run'[r].error \notin {TransformError(e) : e \in CallErrors})
            => \/ run'[r].pc = "metadata"
               \/ /\ run'[r].pc = "error_archive"
                  /\ \E responseText \in Responses :
                       /\ ~Transformed[responseText].ok
                       /\ run'[r].error = TransformError(Transformed[responseText].error)]_vars

\* C16 witness: the response could not be parsed and the run is about to archive
\* the file as failed.
C16_Witness ==
  \E r \in Runs : /\ run[r].pc = "error_archive"
                  /\ run[r].error = TransformError(Transformed[Prose].error)

\* C17: when the restore in the catch block of appendArticle fails, with no
\* backup to restore from or with a failed copy, the error appendArticle throws
\* is the error it caught.
C17_OriginalErrorSurvivesRestore ==
  [][\A r \in Runs :
       (run[r].pc = "restore" /\ run'[r].pc # "restore"
          /\ (DOMAIN backups = {} \/ faults' # faults))
       => /\ run'[r].pc = "error_archive"
          /\ run'[r].error = run[r].error
          /\ store' = store]_vars

\* C17 witness: appendArticle has failed on an invalid article with no backup
\* in the backup folder, and has thrown.
C17_Witness ==
  \E r \in Runs : /\ run[r].pc = "error_archive"
                  /\ run[r].error = "Article validation failed"
                  /\ DOMAIN backups = {}

\* the steps of appendArticle
AppendSteps == {"backup", "read", "write", "writing", "verify", "clean", "restore"}

\* C18: whenever no appendArticle call is in progress, the backup folder holds
\* at most maxBackups backups.
C18_BackupsBounded ==
  (\A r \in Runs : run[r].pc \notin AppendSteps)
  => Cardinality(DOMAIN backups) <= maxBackups

\* C19: when cleanOldBackups fails, appendArticle returns without an error and
\* without a restore: the run goes on to archive the file, and the store, which
\* holds the appended article unless another pipeline wrote since, and the
\* backups stay as they are.
C19_PruneFailureIsNotFatal ==
  [][\A r \in Runs :
       (run[r].pc = "clean" /\ run'[r].pc # "clean" /\ faults' # faults)
       => /\ run'[r].pc = "archive"
          /\ run'[r].error = ""
          /\ store' = store
          /\ backups' = backups]_vars

\* C19 witness: the only run made its backup, wrote the store and failed to
\* prune: one backup more than maxBackups is there, the article is in the store
\* and the run is about to archive the file.
C19_Witness ==
  \E r \in Runs :
    /\ run[r].pc = "archive"
    /\ events = 1
    /\ faults = 1
    /\ Cardinality(DOMAIN backups) = maxBackups + 1
    /\ Readable(store)
    /\ store.posts = Append(run[r].readPosts, run[r].article)

\* the last step of a run that is the only one ever started, met no input/output
\* failure and ends with its file processed
AloneAndSuccessful(r) ==
  /\ run[r].pc = "archive" /\ run'[r].pc = "idle"
  /\ outcome'[run[r].file] = "processed"
  /\ events = 1
  /\ faults' = 0

\* what C20 says of the store, the folders and processingFiles but for the slug
\* and the number of backups
EndToEnd(r) ==
  LET before == run[r].storeAtCall
      article == run[r].article
  IN /\ store' = [before EXCEPT !.posts = Append(@, article)]
     /\ article.id = NextArticleId(before)
     /\ article.date = getCurrentDate(clock)
     /\ run[r].backupName \in DOMAIN backups'
     /\ backups'[run[r].backupName] = before
     /\ run[r].file \notin DOMAIN inputDir'
     /\ processedDir' = {nameWithoutExt(run[r].file) \o <<"-">> \o getTimestamp(clock)
                           \o extname(run[r].file)}
     /\ failedDir' = {}
     /\ errorLogs' = {}
     /\ processingFiles' = {}

EarlyErrors ==
  {"ENOENT", "Failed to read articles.json"}
    \cup {"Invalid transcript: " \o validateTranscript(text).error : text \in Transcripts}
    \cup {TransformError(CallError(attempt)) : attempt \in 1..retryAttempts}
    \cup {TransformError(Transformed[responseText].error) : responseText \in Responses}

\* C21: a run that fails before it calls appendArticle (transcript unreadable or
\* invalid, model call out of attempts, response rejected, next id not readable)
\* changes neither the store nor the backups in any of its steps, handleError
\* included, and has created no backup.
C21_EarlyFailureLeavesStore ==
  [][\A r \in Runs :
       (run'[r] # run[r] /\ run[r].article = NoObject
          /\ (run'[r].pc = "error_archive" \/ run[r].pc = "error_archive"))
       => /\ store' = store
          /\ backups' = backups
          /\ run[r].backupName = <<>> /\ run'[r].backupName = <<>>
          /\ run'[r].pc = "error_archive" => run'[r].error \in EarlyErrors]_vars

\* C21 witness: b.txt.txt, dropped alone, failed because the model answered with
\* prose; the store is as at the start and there is no backup.
C21_Witness ==
  /\ events = 1
  /\ outcome[FileB] = "failed"
  /\ \E log \in errorLogs : log.error = TransformError(Transformed[Prose].error)
  /\ store = Document(<<OldArticle>>)
  /\ DOMAIN backups = {}

\* the paths the watcher reports that are no transcripts
OtherPaths == {p \in Paths : ~EndsWith(p, Txt)}

\* C28: an add event for a path that does not end in .txt starts no timer and no
\* run: the path is never in processingFiles, no run has it as its file, its
\* file stays in the watch folder and the step of the event changes nothing of
\* the store, the backups, the runs and the other folders.
C28_OtherFilesIgnored ==
  /\ [](\A p \in OtherPaths :
          /\ p \notin processingFiles
          /\ timers[p] = 0
          /\ outcome[p] = "none"
          /\ \A r \in Runs : run[r].file # p)
  /\ [][\A p \in OtherPaths :
          /\ p \in DOMAIN inputDir => p \in DOMAIN inputDir'
          /\ (events' # events /\ p \in DOMAIN inputDir'
                /\ (p \notin DOMAIN inputDir \/ inputDir'[p] # inputDir[p]))
             => UNCHANGED <<timers, processingFiles, run, store, backups, processedDir,
                            failedDir, errorLogs, outcome>>]_vars

\* C28 witness: n.md was added, and then a.txt, which is being processed.
C28_Witness ==
  /\ NotesMd \in DOMAIN inputDir
  /\ events = 2
  /\ processingFiles = {FileA}

\* C29: started without the credential, the process exits with code 1 in the
\* step of main(), the watcher is never set up, no add event is ever handled, no
\* run starts and no file is read, moved or written.
C29_NoCredentialNoWatcher ==
  /\ [][(proc.apiKey = NoApiKey /\ proc' # proc)
          => (proc.state = "starting" /\ proc' = Exited(NoApiKey, 1))]_vars
  /\ [](proc.apiKey = NoApiKey
          => /\ proc.state # "watching"
             /\ proc.state = "exited" => proc.exitCode # 0
             /\ events = 0
             /\ processingFiles = {}
             /\ \A r \in Runs : run[r] = IdleRun
             /\ \A p \in Paths : timers[p] = 0 /\ outcome[p] = "none"
             /\ inputDir = EmptyDir /\ processedDir = {} /\ failedDir = {}
             /\ errorLogs = {} /\ DOMAIN backups = {}
             /\ store \in {Document(<<>>), Document(<<OldArticle>>)})

\* C29 witness: the process has exited with code 1 for want of the credential.
C29_Witness ==
  proc = Exited(NoApiKey, 1) /\ faults = 0

\* the call of fn has returned
Done(fn) == call.fn = fn /\ call.returned

\* C22: getImageForArticle returns a URL whatever the search terms, the setting,
\* the credential and the answer of the image service are; unless the search
\* found a non-empty result set the URL is the default image of the category
\* (the generic one for a category without a default); and no request is made
\* when the service is switched off or has no credential.
C22_ImageIsAUrl ==
  Done("getImageForArticle")
  => LET env == call.input.env
         searched == /\ call.input.searchTerms \notin {<<>>, NotAnArray}
                     /\ env.unsplashEnabled /\ env.accessKey # <<>>
         found == /\ searched
                  /\ env.answer.kind = "data"
                  /\ "results" \in DOMAIN env.answer.data
                  /\ Len(env.answer.data.results) > 0
     IN /\ StartsWith(call.output.url, Http)
        /\ ~found => call.output.url = getCategoryDefaultImage(call.input.category)
        /\ (~env.unsplashEnabled \/ env.accessKey = <<>>) => call.output.requests = 0

\* the rules of validateArticleStructure that article breaks: every field
\* present, and each field that is present holding a value of the right form
BrokenRules(article) ==
  {<<"present", f>> : f \in ArticleFields \ DOMAIN article}
    \cup {<<"form", f>> : f \in
            {f \in ArticleFields \cap DOMAIN article :
               CASE f = "id" -> ~IsThreeDigits(article.id)
                 [] f = "title" -> Len(article.title) \notin MinTitleLength..MaxTitleLength
                 [] f = "slug" -> ~IsSlug(article.slug)
                 [] f = "date" -> ~IsDate(article.date)
                 [] f = "category" -> article.category \notin categories
                 [] f = "excerpt" -> Len(article.excerpt) < MinExcerptLength
                 [] f = "content" -> Len(article.content) < MinContentLength
                 [] f = "tags" -> article.tags = NotAnArray \/ Len(article.tags) < MinTags
                 [] f = "author" -> article.author # SimplyNerdy
                 [] f = "image" -> ~StartsWith(article.image, Http)}}

\* C23: validateArticleStructure returns valid exactly for an article that
\* breaks no rule, and its error list has one message for every rule the
\* article breaks, for every field value, the empty string included.
C23_AllViolationsReported ==
  Done("validateArticleStructure")
  => /\ call.output.valid = (BrokenRules(call.input) = {})
     /\ Len(call.output.errors) = Cardinality(BrokenRules(call.input))

\* C24: getNextArticleId returns the greatest number parsed from the stored ids
\* (0 when there is none) plus one, padded with zeros to three digits, and the
\* result has exactly three digits.
C24_NextIdHasThreeDigits ==
  Done("getNextArticleId")
  => LET posts == call.input.posts
         numbers == {ParseInt(posts[i].id) :
                       i \in {j \in 1..Len(posts) : "id" \in DOMAIN posts[j]}} \ {NaN}
         max == IF numbers = {} THEN 0 ELSE MaxOf(numbers)
     IN /\ call.output = PadStart(NatToString(max + 1), 3, "0")
        /\ IsThreeDigits(call.output)

\* C25: validateTranscript returns valid for every text of 100 to 100000
\* characters, leading and trailing white space counted, and invalid with a
\* reason for every other text and for a value that is no string.
C25_LengthDecides ==
  Done("validateTranscript")
  => IF /\ call.input # NotAText
        /\ TextLength(call.input) \in MinTranscriptLength..MaxTranscriptLength
       THEN call.output.valid
       ELSE ~call.output.valid /\ call.output.error # ""

\* C26: parseApiResponse returns the object of the first of the three shapes
\* (whole body, fenced block, braces) that parses, going on to the next shape
\* when one does not parse, and fails only when none of them parses.
C26_FirstShapeThatParses ==
  Done("parseApiResponse")
  => LET shapes == <<call.input.whole, call.input.fence, call.input.brace>>
         parsing == {k \in 1..3 : shapes[k].match /\ shapes[k].parses}
     IN IF parsing # {}
          THEN call.output.ok /\ call.output.obj = shapes[MinOf(parsing)].obj
          ELSE ~call.output.ok /\ call.output.error # ""

\* C27: validateApiResponse fails with one message per missing field, in the
\* order of the fields, when one of the six fields is absent. Otherwise, with a
\* title and an excerpt that are strings, it succeeds whatever category, tags and
\* imageSearchTerms are: the category of the result is the one given when it is
\* configured and Games when not; the tags are the ones given when they are an
\* array of three or more, and podcast, simply-nerdy and the lowercased category
\* of the result when not; the search terms are the ones given when they are a
\* non-empty array and the lowercased category of the result when not.
C27_ResponseCoerced ==
  Done("validateApiResponse")
  => LET given == call.input
         absent == {f \in DOMAIN GoodObject : f \notin DOMAIN given}
         data == call.output.data
     IN IF absent # {}
          THEN /\ ~call.output.ok
               /\ Len(call.output.errors) = Cardinality(absent)
               /\ \A f \in absent : \E i \in 1..Len(call.output.errors) :
                    call.output.errors[i] = <<"Missing required field", f>>
        ELSE IF given.title = NotAString \/ given.excerpt = NotAString
          THEN ~call.output.ok
        ELSE /\ call.output.ok
             /\ data.category \in categories
             /\ data.category = IF given.category \in categories THEN given.category ELSE Games
             /\ data.tags # NotAnArray /\ Len(data.tags) >= 3
             /\ data.tags = IF given.tags # NotAnArray /\ Len(given.tags) >= 3
                              THEN given.tags
                              ELSE <<Podcast, SimplyNerdyTag, ToLowerCase(data.category)>>
             /\ data.imageSearchTerms # NotAnArray /\ Len(data.imageSearchTerms) >= 1
             /\ data.imageSearchTerms
                  = IF given.imageSearchTerms # NotAnArray /\ Len(given.imageSearchTerms) >= 1
                      THEN given.imageSearchTerms
                      ELSE <<ToLowerCase(data.category)>>

\* C27 witness: a response with the category Books, tags and search terms that
\* are no arrays: the result has Games, the three default tags and games.
C27_Witness ==
  /\ Done("validateApiResponse")
  /\ DOMAIN call.input = DOMAIN GoodObject
  /\ call.input.title = TopicTitle
  /\ call.input.category = Books
  /\ call.input.tags = NotAnArray
  /\ call.input.imageSearchTerms = NotAnArray
  /\ call.output.ok
  /\ call.output.data.category = Games
  /\ call.output.data.tags = <<Podcast, SimplyNerdyTag, <<"g","a","m","e","s">> >>
  /\ call.output.data.imageSearchTerms = << <<"g","a","m","e","s">> >>

\* C30: generateSlug returns a string of the characters a-z, 0-9 and hyphen only,
\* that neither begins nor ends with a hyphen and holds no two hyphens in a row;
\* the string may be empty.
C30_SlugIsClean ==
  Done("generateSlug")
  => LET slug == call.output
     IN /\ AllIn(slug, Lower \cup Digit \cup {"-"})
        /\ slug # <<>> => slug[1] # "-" /\ slug[Len(slug)] # "-"
        /\ \A i \in 1..(Len(slug) - 1) : ~(slug[i] = "-" /\ slug[i + 1] = "-")

\* C30 witness: the title "Z -7" gives z-7.
C30_Witness ==
  /\ Done("generateSlug")
  /\ call.input = <<"Z", " ", "-", "7">>
  /\ call.output = <<"z", "-", "7">>

\* s holds, at position i, an element tag, paired or self-closing: <tag, a
\* character that ends the name, and further on either /> with no > before it
\* or > and, after it, </tag>
HoldsElement(s, i, tag) ==
  LET after == i + 1 + Len(tag)
      gt == IndexOfChar(s, {">"}, after)
  IN /\ MatchesAt(s, i, <<"<">> \o tag)
     /\ after <= Len(s)
     /\ s[after] \in Space \cup {">", "/"}
     /\ gt # 0
     /\ \/ s[gt - 1] = "/"
        \/ \E k \in (gt + 1)..Len(s) : MatchesAt(s, k, <<"<", "/">> \o tag \o <<">">>)

\* s holds, at position i, an attribute on... with a value: inside a tag, a name
\* that begins with on after white space, and an equals sign
HandlerAttribute(s, i) ==
  LET afterWord == SkipChars(s, WordChar, i + 2)
      eq == SkipChars(s, Space, afterWord)
  IN /\ i > 1 /\ s[i - 1] \in Space
     /\ \E j \in 1..(i - 1) : s[j] = "<" /\ \A k \in j..i : s[k] # ">"
     /\ MatchesAt(s, i, <<"o", "n">>)
     /\ afterWord > i + 2
     /\ eq <= Len(s) /\ s[eq] = "="

\* s holds an element of the denylist or an inline event handler
Dangerous(s) ==
  \/ \E i \in 1..Len(s), t \in 1..Len(DangerousTags) : HoldsElement(s, i, DangerousTags[t])
  \/ \E i \in 1..Len(s) : HandlerAttribute(s, i)

\* C31: for every string, the output of sanitizeHtml holds no script, iframe,
\* object, embed or form element and no inline event-handler attribute, and a
\* string that holds none of them is returned as it is.
C31_SanitizedIsSafe ==
  Done("sanitizeHtml") /\ call.input # NotAString
  => /\ ~Dangerous(call.output)
     /\ ~Dangerous(call.input) => call.output = call.input

\* article is one of the posts of the store
Stored(content, article) ==
  Readable(content) /\ \E i \in 1..Len(content.posts) : content.posts[i] = article

\* C32: the failure handling of an appendArticle call never removes an article
\* whose append was reported successful: the step that ends the catch block of a
\* call (restoreFromBackup, done or failed) leaves in the store every article
\* that is in it and whose appendArticle call has returned successfully.
C32_SuccessfulAppendStays ==
  [][\A r \in Runs :
       (run[r].pc = "restore" /\ run'[r].pc # "restore")
       => \A q \in Runs \ {r} :
            (run[q].pc = "archive" /\ Stored(store, run[q].article))
            => Stored(store', run[q].article)]_vars

\* C33: a source file ends in the failed folder only if no article derived from
\* it is in the store: whenever handleError moves the file of a run to the failed
\* folder, whatever step of the run failed, the store does not hold the article
\* of that run.
C33_FailedFileHasNoArticle ==
  [][\A r \in Runs :
       (run[r].pc = "error_archive" /\ failedDir' # failedDir)
       => ~Stored(store', run[r].article)]_vars

\* the articles the pipelines have added to the store: OldArticle is of 2024
NewPosts == SelectSeq(Posts, LAMBDA post : post # OldArticle)

\* C34: each source file dropped into the watch folder yields at most one
\* article in the store, also when the process is stopped by a signal and
\* started again: the store never holds more added articles than files were
\* dropped.
C34_OneArticlePerFile == Len(NewPosts) <= dropped

\* C35: every appendArticle call that completes createBackup adds a backup file
\* distinct from all existing ones, also within one second: the step of
\* createBackup replaces no backup that is there and the backup folder holds
\* one file more after it.
C35_BackupIsNew ==
  [][\A r \in Runs :
       (run[r].pc = "backup" /\ run'[r].pc = "read")
       => /\ run'[r].backupName \notin DOMAIN backups
          /\ Cardinality(DOMAIN backups') = Cardinality(DOMAIN backups) + 1]_vars

\* the number of appendArticle calls of runs other than r that have returned
\* with success: the runs that ended with their file processed and the runs
\* that are past the call
ReturnedAppends(r) ==
  Cardinality({p \in Paths : outcome[p] = "processed"})
    + Cardinality({q \in Runs \ {r} : run[q].pc = "archive"})

\* run r is at the end of an appendArticle call that no other call overlapped:
\* no run has failed, every other run is before its appendArticle call or past
\* it, the store held at the call of r one added article for every other call
\* that has returned (so that every one of them wrote before r was called), and
\* r read the posts the store held at its call
AppendedAlone(r) ==
  /\ run[r].pc = "clean"
  /\ \A p \in Paths : outcome[p] \in {"none", "processed"}
  /\ \A q \in Runs \ {r} : run[q].pc \in {"idle", "transforming", "metadata", "archive"}
  /\ Len(SelectSeq(run[r].storeAtCall.posts, LAMBDA post : post # OldArticle))
       = ReturnedAppends(r)
  /\ run[r].readPosts = run[r].storeAtCall.posts

\* C36: a successful appendArticle with no other append in progress changes the
\* store only by adding the new article at the end of posts: at its return every
\* article stored at the call is unchanged and at its position, the new article
\* follows them, and the _instructions header is the one of the call.
C36_AppendOnlyAdds ==
  [][\A r \in Runs :
       (AppendedAlone(r) /\ run'[r].pc = "archive")
       => LET before == run[r].storeAtCall
          IN /\ Readable(store')
             /\ Len(store'.posts) = Len(before.posts) + 1
             /\ \A i \in 1..Len(before.posts) : store'.posts[i] = before.posts[i]
             /\ store'.posts[Len(store'.posts)] = run[r].article
             /\ store'._instructions = before._instructions
             /\ DOMAIN store' = DOMAIN before]_vars

\* C36 witness: the second of two appends, one after the other, has returned:
\* the store holds the old article, the article of the first append and the
\* new one, in this order.
C36_Witness ==
  \E r \in Runs :
    /\ run[r].pc = "archive"
    /\ \A q \in Runs \ {r} : run[q].pc = "idle"
    /\ \A p \in Paths \ {run[r].file} : outcome[p] \in {"none", "processed"}
    /\ \E p \in Paths \ {run[r].file} : outcome[p] = "processed"
    /\ outcome[run[r].file] = "none"
    /\ Len(run[r].readPosts) = 2
    /\ run[r].readPosts = run[r].storeAtCall.posts
    /\ run[r].readPosts[1] = OldArticle
    /\ Readable(store)
    /\ store.posts = Append(run[r].readPosts, run[r].article)

\* the day (YYYYMMDD) and the time of day (HHMMSS) a backup name embeds, as
\* numbers, and the backup a made before the backup b
BackupDay(t) == ParseInt(SubSeq(t, 1, 8))
BackupTime(t) == ParseInt(SubSeq(t, 10, 15))
MadeBefore(a, b) ==
  \/ BackupDay(a) < BackupDay(b)
  \/ BackupDay(a) = BackupDay(b) /\ BackupTime(a) < BackupTime(b)

\* C37: cleanOldBackups, when no file operation of it fails, deletes exactly the
\* backups that are not among the maxBackups most recent by the time their
\* names embed and none when there are at most maxBackups; the backups it keeps
\* hold what they held; the most recent backup stays, so that restoreFromBackup
\* restores after the prune the backup it would have restored before it.
C37_PruneKeepsNewest ==
  [][\A r \in Runs :
       (run[r].pc = "clean" /\ run'[r].pc # "clean" /\ faults' = faults)
       => LET names == DOMAIN backups
              kept == DOMAIN backups'
          IN /\ kept \subseteq names
             /\ \A t \in kept : backups'[t] = backups[t]
             /\ Cardinality(kept)
                  = IF Cardinality(names) <= maxBackups THEN Cardinality(names) ELSE maxBackups
             /\ \A t \in kept, u \in names \ kept : MadeBefore(u, t)
             /\ names # {}
                  => /\ LatestBackup(backups') = LatestBackup(backups)
                     /\ RestoredContent(backups') = RestoredContent(backups)]_vars

\* C37 witness: after two appends into a full backup folder, in different
\* seconds, the second prune has returned: the two oldest backups are gone and
\* the two new ones are among the maxBackups that are left.
C37_Witness ==
  \E r \in Runs :
    /\ run[r].pc = "archive"
    /\ faults = 0
    /\ Cardinality(DOMAIN backups) = maxBackups
    /\ {OldTimestamp(0), OldTimestamp(1)} \cap DOMAIN backups = {}
    /\ {getTimestamp(0), getTimestamp(1)} \subseteq DOMAIN backups
    /\ run[r].backupName = getTimestamp(1)

\* the catch block of appendArticle is about to run for run r because the
\* verifyIntegrity of its writeArticles threw: the write itself had ended
VerifyFailed(r) ==
  /\ run[r].pc = "restore"
  /\ run[r].data # NoObject
  /\ run[r].error \in {"Failed to read articles.json", "Invalid articles.json structure"}

\* C38: writeArticles returns only when the store, read again after the write,
\* parses and has _instructions and posts; when that check fails writeArticles
\* throws and appendArticle runs its catch block, and when the catch block ends
\* and the error goes to the caller the article is not in the store.
C38_FailedVerifyLeavesNoArticle ==
  [][\A r \in Runs :
       /\ (run[r].pc = "verify" /\ run'[r].pc = "clean")
            => Readable(store) /\ IntegrityOk(store)
       /\ (run[r].pc = "verify" /\ run'[r].pc # "verify" /\ ~(Readable(store) /\ IntegrityOk(store)))
            => run'[r].pc = "restore" /\ run'[r].error # ""
       /\ (VerifyFailed(r) /\ run'[r].pc = "error_archive")
            => ~Stored(store', run[r].article)]_vars

====
